---- MODULE Spec2Model ----
(***************************************************************************)
(* CipherChat: the client-side encryption core (utils/crypto, utils/backup)*)
(* and the chat flows that use it (ChatWindow, the message routes).        *)
(*                                                                         *)
(* The Web Crypto primitives are modelled symbolically: a ciphertext is a  *)
(* term that records the key, the nonce and the plaintext it was made      *)
(* from, and it opens only under exactly that key and nonce (AES-GCM and   *)
(* RSA-OAEP reject everything else).  The encodings the code applies around*)
(* them (TextEncoder / TextDecoder, btoa / atob, JSON) are modelled by     *)
(* what they do.  Texts are well-formed UTF-16 strings.                    *)
(***************************************************************************)
EXTENDS Integers, Sequences, FiniteSets, TLC

(***************************************************************************)
(* Bounds of the model.                                                    *)
(***************************************************************************)
MaxLen == 2          \* longest text (plaintext, passphrase) in code units
MaxRand == 2         \* distinct values one random draw can take
MaxTamperPos == 2    \* distinct places of a bundle field that are altered

(***************************************************************************)
(* Results of the (async) functions: a value, or a thrown error.           *)
(***************************************************************************)
None == [kind |-> "none"]

Ok(v) == [ok |-> TRUE, val |-> v, err |-> ""]

Throw(e) == [ok |-> FALSE, val |-> None, err |-> e]

(***************************************************************************)
(* Texts.  A JavaScript string is a sequence of UTF-16 code units.         *)
(***************************************************************************)
Str(cu) == [kind |-> "str", cu |-> cu]

\* The code units texts are built from: "a", "A" and U+FEFF (ZERO WIDTH
\* NO-BREAK SPACE, the byte order mark).
Alphabet == {97, 65, 65279}

RECURSIVE SeqsUpTo(_, _)
SeqsUpTo(S, n) ==
  IF n = 0 THEN {<<>>}
  ELSE LET shorter == SeqsUpTo(S, n - 1)
       IN shorter \cup {<<c>> \o s : c \in S, s \in {t \in shorter : Len(t) = n - 1}}

IsHighSurrogate(c) == c \in 55296..56319

IsLowSurrogate(c) == c \in 56320..57343

\* TextEncoder.encode on the code units of a string: UTF-8, a lone
\* surrogate becoming U+FFFD.
RECURSIVE Utf8Bytes(_)
Utf8Bytes(cu) ==
  IF cu = <<>> THEN <<>>
  ELSE LET c == Head(cu)
       IN IF c < 128 THEN <<c>> \o Utf8Bytes(Tail(cu))
          ELSE IF c < 2048
            THEN <<192 + (c \div 64), 128 + (c % 64)>> \o Utf8Bytes(Tail(cu))
          ELSE IF IsHighSurrogate(c) /\ Len(cu) > 1 /\ IsLowSurrogate(cu[2])
            THEN LET cp == 65536 + (c - 55296) * 1024 + (cu[2] - 56320)
                 IN <<240 + (cp \div 262144), 128 + ((cp \div 4096) % 64),
                      128 + ((cp \div 64) % 64), 128 + (cp % 64)>>
                    \o Utf8Bytes(Tail(Tail(cu)))
          ELSE IF IsHighSurrogate(c) \/ IsLowSurrogate(c)
            THEN <<239, 191, 189>> \o Utf8Bytes(Tail(cu))
          ELSE <<224 + (c \div 4096), 128 + ((c \div 64) % 64), 128 + (c % 64)>>
               \o Utf8Bytes(Tail(cu))

IsContinuation(b) == b \in 128..191

\* The UTF-8 decoder of TextDecoder (not fatal): code units of the decoded
\* text, an ill-formed byte becoming U+FFFD.
RECURSIVE Utf8Units(_)
Utf8Units(b) ==
  IF b = <<>> THEN <<>>
  ELSE LET h == Head(b)
           n == Len(b)
       IN IF h < 128 THEN <<h>> \o Utf8Units(Tail(b))
          ELSE IF h \in 194..223 /\ n >= 2 /\ IsContinuation(b[2])
            THEN <<(h - 192) * 64 + (b[2] - 128)>> \o Utf8Units(SubSeq(b, 3, n))
          ELSE IF h \in 224..239 /\ n >= 3 /\ IsContinuation(b[2]) /\ IsContinuation(b[3])
                  /\ (h - 224) * 4096 + (b[2] - 128) * 64 + (b[3] - 128) >= 2048
                  /\ ~((h - 224) * 4096 + (b[2] - 128) * 64 + (b[3] - 128) \in 55296..57343)
            THEN <<(h - 224) * 4096 + (b[2] - 128) * 64 + (b[3] - 128)>>
                 \o Utf8Units(SubSeq(b, 4, n))
          ELSE IF h \in 240..244 /\ n >= 4 /\ IsContinuation(b[2]) /\ IsContinuation(b[3])
                  /\ IsContinuation(b[4])
                  /\ (h - 240) * 262144 + (b[2] - 128) * 4096 + (b[3] - 128) * 64
                       + (b[4] - 128) \in 65536..1114111
            THEN LET cp == (h - 240) * 262144 + (b[2] - 128) * 4096 + (b[3] - 128) * 64
                             + (b[4] - 128)
                 IN <<55296 + ((cp - 65536) \div 1024), 56320 + ((cp - 65536) % 1024)>>
                    \o Utf8Units(SubSeq(b, 5, n))
          ELSE <<65533>> \o Utf8Units(Tail(b))

(***************************************************************************)
(* Byte buffers.  A buffer is either a concrete byte sequence                *)
(* ("raw"), the UTF-8 bytes of a symbolic text ("utf8of"), or the output   *)
(* of a primitive: random bytes ("rand"), an exported key ("spki",         *)
(* "pkcs8"), derived key bits ("pbkdf2"), an AES-GCM ciphertext with its   *)
(* tag ("gcm"), an RSA-OAEP ciphertext ("oaep"), or a buffer that differs  *)
(* from another one in some bit ("altered").                               *)
(***************************************************************************)
Raw(bytes) == [kind |-> "raw", bytes |-> bytes]

Random(id, len) == [kind |-> "rand", id |-> id, len |-> len]

Altered(buffer, at) == [kind |-> "altered", of |-> buffer, at |-> at]

\* modulusLength of generateKeyPair, in bits.
RsaModulusBits == 2048

\* Arguments one call may receive before the engine throws a RangeError
\* (String.fromCharCode(...bytes) passes one argument per byte).  Engines
\* differ; this is the most permissive of the mainstream ones.
MaxCallArguments == 500000

B64Len(n) == 4 * ((n + 2) \div 3)

RECURSIVE ByteLen(_)
RECURSIVE TextLen(_)
RECURSIVE JsonMinLen(_)
\* Code units of a text; for a JSON text the length of the string values it
\* holds, which is a lower bound of its length.
TextLen(text) ==
  CASE text.kind = "str" -> Len(text.cu)
    [] text.kind = "b64" -> B64Len(ByteLen(text.bytes))
    [] text.kind = "json" -> JsonMinLen(text.val)
    [] OTHER -> 0

\* byteLength of a buffer.  AES-GCM appends a 16-byte tag; RSA-OAEP yields
\* one modulus; SPKI and PKCS#8 of an RSA-2048 key take 294 and about 1218
\* bytes.
ByteLen(buffer) ==
  CASE buffer.kind = "raw" -> Len(buffer.bytes)
    [] buffer.kind = "utf8of" -> TextLen(buffer.text)
    [] buffer.kind = "rand" -> buffer.len
    [] buffer.kind = "gcm" -> ByteLen(buffer.pt) + 16
    [] buffer.kind = "oaep" -> RsaModulusBits \div 8
    [] buffer.kind = "spki" -> 294
    [] buffer.kind = "pkcs8" -> 1218
    [] buffer.kind = "pbkdf2" -> 32
    [] buffer.kind = "altered" -> ByteLen(buffer.of)
    [] OTHER -> 0

BundleLen(pkg) == TextLen(pkg.ciphertext) + TextLen(pkg.encKey) + TextLen(pkg.iv)

MessageMinLen(m) ==
  BundleLen(m.encryptedForRecipient) + BundleLen(m.encryptedForSender)
    + TextLen(m.sender.publicKey) + TextLen(m.recipient.publicKey)

\* The sum of MessageMinLen over messages[lo..hi], by halves.
RECURSIVE MessagesMinLen(_, _, _)
MessagesMinLen(messages, lo, hi) ==
  IF lo > hi THEN 0
  ELSE IF lo = hi THEN MessageMinLen(messages[lo])
  ELSE LET mid == (lo + hi) \div 2
       IN MessagesMinLen(messages, lo, mid) + MessagesMinLen(messages, mid + 1, hi)

\* JSON.stringify(value).length is at least the length of the base64 texts
\* the value holds (the bundles and public keys of a backup's messages, the
\* ciphertext of a backup file).
JsonMinLen(value) ==
  IF "messages" \in DOMAIN value THEN MessagesMinLen(value.messages, 1, Len(value.messages))
  ELSE IF "ciphertext" \in DOMAIN value THEN TextLen(value.ciphertext)
  ELSE 0

\* new TextEncoder().encode(text)
TextEncode(text) ==
  IF text.kind = "str" THEN Raw(Utf8Bytes(text.cu))
  ELSE [kind |-> "utf8of", text |-> text]

\* new TextDecoder().decode(buffer): ignoreBOM is false, so a leading U+FEFF
\* is taken as a byte order mark and dropped.
TextDecode(buffer) ==
  IF buffer.kind = "raw"
    THEN LET DropBOM(u) == IF u # <<>> /\ Head(u) = 65279 THEN Tail(u) ELSE u
         IN Str(DropBOM(Utf8Units(buffer.bytes)))
  ELSE IF buffer.kind = "utf8of" THEN buffer.text
  ELSE Str(<<65533>>)

(***************************************************************************)
(* Base64.  The base64 text of a symbolic buffer is the term "b64": the    *)
(* bytes it decodes to, the value of the low bits of its last character    *)
(* that encode no byte (slack; 0 as btoa writes it), and whether it holds  *)
(* a character outside the base64 alphabet.                                *)
(***************************************************************************)
B64(buffer) == [kind |-> "b64", bytes |-> buffer, slack |-> 0, bad |-> FALSE]

\* Bits of the last base64 character that encode no byte.
SlackBits(n) == CASE n % 3 = 0 -> 0 [] n % 3 = 1 -> 4 [] OTHER -> 2

B64Value(c) ==
  IF c \in 65..90 THEN c - 65
  ELSE IF c \in 97..122 THEN c - 71
  ELSE IF c \in 48..57 THEN c + 4
  ELSE IF c = 43 THEN 62
  ELSE IF c = 47 THEN 63
  ELSE -1

RECURSIVE B64Groups(_)
\* Bytes of a sequence of 6-bit values: a last group of 2 or 3 values drops
\* its low 4 or 2 bits.
B64Groups(v) ==
  IF Len(v) >= 4
    THEN <<v[1] * 4 + (v[2] \div 16), (v[2] % 16) * 16 + (v[3] \div 4), (v[3] % 4) * 64 + v[4]>>
         \o B64Groups(SubSeq(v, 5, Len(v)))
  ELSE IF Len(v) = 3
    THEN <<v[1] * 4 + (v[2] \div 16), (v[2] % 16) * 16 + (v[3] \div 4)>>
  ELSE IF Len(v) = 2 THEN <<v[1] * 4 + (v[2] \div 16)>>
  ELSE <<>>

\* atob on the code units of a concrete string (forgiving-base64 decode).
AtobUnits(cu) ==
  LET IsNotBlank(c) == c \notin {9, 10, 12, 13, 32}
      Cut(data, n) ==
        IF n % 4 = 0 /\ n >= 2 /\ data[n] = 61 /\ data[n - 1] = 61 THEN n - 2
        ELSE IF n % 4 = 0 /\ n >= 1 /\ data[n] = 61 THEN n - 1
        ELSE n
      Decode(body, cut) ==
        IF cut % 4 = 1 \/ \E i \in 1..cut : B64Value(body[i]) = -1
          THEN Throw("InvalidCharacterError")
        ELSE Ok(Raw(B64Groups([i \in 1..cut |-> B64Value(body[i])])))
      Strip(data, cut) == Decode(SubSeq(data, 1, cut), cut)
      Forgive(data) == Strip(data, Cut(data, Len(data)))
  IN Forgive(SelectSeq(cu, IsNotBlank))

\* arrayToBase64 = btoa(String.fromCharCode(...new Uint8Array(buffer)))
arrayToBase64(buffer) ==
  IF ByteLen(buffer) > MaxCallArguments THEN Throw("RangeError")
  ELSE Ok(B64(buffer))

\* base64ToArray = atob, then one byte per character
base64ToArray(b64) ==
  CASE b64.kind = "b64" -> IF b64.bad THEN Throw("InvalidCharacterError") ELSE Ok(b64.bytes)
    [] b64.kind \in {"str", "null"} ->
         AtobUnits(IF b64.kind = "str" THEN b64.cu ELSE <<110, 117, 108, 108>>)
    [] OTHER -> Throw("InvalidCharacterError")

(***************************************************************************)
(* The Web Crypto primitives.                                              *)
(***************************************************************************)
\* crypto.subtle.deriveKey with PBKDF2 / SHA-256: the key bits are a
\* function of password bytes, salt and iteration count.
Pbkdf2(passwordBytes, salt, iterations) ==
  [kind |-> "pbkdf2", pw |-> passwordBytes, salt |-> salt, iter |-> iterations]

\* crypto.subtle.encrypt with AES-GCM
AesGcmEncrypt(key, iv, data) == [kind |-> "gcm", key |-> key, iv |-> iv, pt |-> data]

\* A decryption that checks no tag: changed ciphertext yields changed bytes.
AesGcmDecryptUnverified(key, iv, data) ==
  IF data.kind = "gcm" /\ data.key = key /\ data.iv = iv THEN Ok(data.pt)
  ELSE IF data.kind = "altered" THEN Ok(Raw(<<63>>))
  ELSE Throw("OperationError")

\* crypto.subtle.decrypt with AES-GCM: the tag verifies only for the
\* untouched ciphertext under the key and nonce that sealed it.
AesGcmDecrypt(key, iv, data) ==
  IF data.kind = "gcm" /\ data.key = key /\ data.iv = iv THEN Ok(data.pt)
  ELSE Throw("OperationError")

\* crypto.subtle.encrypt with RSA-OAEP
RsaOaepEncrypt(publicKey, data) == [kind |-> "oaep", kp |-> publicKey.kp, m |-> data]

\* An unwrapping that any private key performs.
RsaOaepDecryptAnyKey(privateKey, data) ==
  IF data.kind = "oaep" THEN Ok(data.m) ELSE Throw("OperationError")

\* crypto.subtle.decrypt with RSA-OAEP
RsaOaepDecrypt(privateKey, data) ==
  IF data.kind = "oaep" /\ data.kp = privateKey.kp THEN Ok(data.m)
  ELSE Throw("OperationError")

\* crypto.subtle.importKey('raw', bits, AES-GCM): 128, 192 or 256 bits.
ImportAesKey(bits) ==
  IF ByteLen(bits) \in {16, 24, 32} THEN Ok(bits) ELSE Throw("DataError")

(***************************************************************************)
(* utils/crypto: key pairs.                                                *)
(***************************************************************************)
KeyPairs == {1, 2}

\* generateKeyPair: base64 SPKI and base64 PKCS#8 of the k-th key pair.
generateKeyPair(k) ==
  [publicKey |-> B64([kind |-> "spki", kp |-> k]),
   privateKey |-> B64([kind |-> "pkcs8", kp |-> k])]

importPublicKey(b64) ==
  LET ImportSpki(der) ==
        IF ~der.ok THEN der
        ELSE IF der.val.kind = "spki" THEN Ok([kind |-> "rsapub", kp |-> der.val.kp])
        ELSE Throw("DataError")
  IN ImportSpki(base64ToArray(b64))

importPrivateKey(b64) ==
  LET ImportPkcs8(der) ==
        IF ~der.ok THEN der
        ELSE IF der.val.kind = "pkcs8" THEN Ok([kind |-> "rsapriv", kp |-> der.val.kp])
        ELSE Throw("DataError")
  IN ImportPkcs8(base64ToArray(b64))

(***************************************************************************)
(* utils/crypto: message encryption.  aesKey and iv are the values the     *)
(* two random draws of one call return.                                    *)
(***************************************************************************)
encryptMessage(plaintext, recipientPubKeyB64, aesKey, iv) ==
  LET Pack(ciphertext, encKey, nonce) ==
        IF ~ciphertext.ok THEN ciphertext
        ELSE IF ~encKey.ok THEN encKey
        ELSE IF ~nonce.ok THEN nonce
        ELSE Ok([ciphertext |-> ciphertext.val, encKey |-> encKey.val,
                 iv |-> nonce.val])
      Seal(recipientPubKey, msgBytes) ==
        IF ~recipientPubKey.ok THEN recipientPubKey
        ELSE Pack(arrayToBase64(AesGcmEncrypt(aesKey, iv, msgBytes)),
                  arrayToBase64(RsaOaepEncrypt(recipientPubKey.val, aesKey)),
                  arrayToBase64(iv))
  IN Seal(importPublicKey(recipientPubKeyB64), TextEncode(plaintext))

decryptMessage(pkg, privateKeyB64) ==
  LET Decode(plaintext) ==
        IF ~plaintext.ok THEN plaintext ELSE Ok(TextDecode(plaintext.val))
      Open(aesKey, iv, ciphertext) ==
        IF ~aesKey.ok THEN aesKey
        ELSE IF ~iv.ok THEN iv
        ELSE IF ~ciphertext.ok THEN ciphertext
        ELSE Decode(AesGcmDecrypt(aesKey.val, iv.val, ciphertext.val))
      Import(aesRaw) ==
        IF ~aesRaw.ok THEN aesRaw
        ELSE Open(ImportAesKey(aesRaw.val), base64ToArray(pkg.iv),
                  base64ToArray(pkg.ciphertext))
      Unwrap(privateKey, encAesKeyBytes) ==
        IF ~encAesKeyBytes.ok THEN encAesKeyBytes
        ELSE Import(RsaOaepDecrypt(privateKey.val, encAesKeyBytes.val))
      WithKey(privateKey) ==
        IF ~privateKey.ok THEN privateKey
        ELSE Unwrap(privateKey, base64ToArray(pkg.encKey))
  IN WithKey(importPrivateKey(privateKeyB64))

(***************************************************************************)
(* utils/crypto: the private key under a passphrase.  salt and iv are the  *)
(* values the two random draws of one call return.                         *)
(***************************************************************************)
\* iterations of deriveKey
KeyIterations == 100000

\* A derivation that reads the salt alone.
deriveKeySaltOnly(passphrase, salt) == Pbkdf2(Raw(<<>>), salt, KeyIterations)

deriveKey(passphrase, salt) == Pbkdf2(TextEncode(passphrase), salt, KeyIterations)

encryptPrivateKey(privateKeyB64, passphrase, salt, iv) ==
  LET key == deriveKey(passphrase, salt)
      enc == TextEncode(privateKeyB64)
      ct == arrayToBase64(AesGcmEncrypt(key, iv, enc))
      salt64 == arrayToBase64(salt)
      iv64 == arrayToBase64(iv)
  IN IF ~ct.ok THEN ct
     ELSE IF ~salt64.ok THEN salt64
     ELSE IF ~iv64.ok THEN iv64
     ELSE Ok([ct |-> ct.val, salt |-> salt64.val, iv |-> iv64.val])

\* An unwrapping that takes the salt for the nonce and the nonce for the salt.
decryptPrivateKeySwapped(pkg, passphrase) ==
  LET salt == base64ToArray(pkg.iv)
      iv == base64ToArray(pkg.salt)
      ct == base64ToArray(pkg.ct)
  IN IF ~salt.ok THEN salt
     ELSE IF ~iv.ok THEN iv
     ELSE IF ~ct.ok THEN ct
     ELSE LET key == deriveKey(passphrase, salt.val)
              plain == AesGcmDecrypt(key, iv.val, ct.val)
          IN IF ~plain.ok THEN plain ELSE Ok(TextDecode(plain.val))

decryptPrivateKey(pkg, passphrase) ==
  LET salt == base64ToArray(pkg.salt)
      iv == base64ToArray(pkg.iv)
      ct == base64ToArray(pkg.ct)
  IN IF ~salt.ok THEN salt
     ELSE IF ~iv.ok THEN iv
     ELSE IF ~ct.ok THEN ct
     ELSE LET key == deriveKey(passphrase, salt.val)
              plain == AesGcmDecrypt(key, iv.val, ct.val)
          IN IF ~plain.ok THEN plain ELSE Ok(TextDecode(plain.val))

(***************************************************************************)
(* JSON.  The text JSON.stringify writes for a value is the term "json";   *)
(* JSON.parse reads it back, reads the text "null" as null and rejects the *)
(* other texts of the model.                                               *)
(***************************************************************************)
JsonNull == [kind |-> "null"]

Undefined == [kind |-> "undefined"]

JSONstringify(value) == [kind |-> "json", val |-> value]

JSONparse(text) ==
  CASE text.kind = "json" -> Ok(text.val)
    [] text.kind = "str" /\ text.cu = <<110, 117, 108, 108>> -> Ok(JsonNull)
    [] OTHER -> Throw("SyntaxError")

\* value[name] of a parsed JSON object: undefined when it has no such field
Field(value, name) == IF name \in DOMAIN value THEN value[name] ELSE Undefined

(***************************************************************************)
(* utils/backup: the fingerprint of a public key.  hash is the digest       *)
(* SHA-256 returns for the bytes of the key.                               *)
(***************************************************************************)
\* Bytes of a SHA-256 digest.
DigestBytes == 32

\* The digit of Number.prototype.toString(16) for a value below sixteen:
\* "0".."9", "a".."f".
HexDigit(v) == IF v < 10 THEN 48 + v ELSE 87 + v

\* b.toString(16)
ToString16(b) ==
  IF b < 16 THEN <<HexDigit(b)>> ELSE <<HexDigit(b \div 16), HexDigit(b % 16)>>

\* s.padStart(2, '0')
PadStart2(cu) == IF Len(cu) >= 2 THEN cu ELSE <<48>> \o cu

RECURSIVE JoinAll(_)
\* parts.join('')
JoinAll(parts) == IF parts = <<>> THEN <<>> ELSE Head(parts) \o JoinAll(Tail(parts))

\* s.toUpperCase() on the letters a to z
ToUpperCase(cu) == [i \in 1..Len(cu) |-> IF cu[i] \in 97..122 THEN cu[i] - 32 ELSE cu[i]]

\* s.match(/.{4}/g): the successive groups of four characters, none of them
\* a line terminator; null when there is none.
MatchFours(cu) ==
  LET IsLineTerminator(c) == c \in {10, 13, 8232, 8233}
      RECURSIVE Scan(_)
      Scan(at) ==
        IF at + 3 > Len(cu) THEN <<>>
        ELSE IF \E k \in at..(at + 3) : IsLineTerminator(cu[k]) THEN Scan(at + 1)
        ELSE <<SubSeq(cu, at, at + 3)>> \o Scan(at + 4)
      found == Scan(1)
  IN IF found = <<>> THEN JsonNull ELSE found

RECURSIVE JoinSpaced(_)
\* parts.join(' ')
JoinSpaced(parts) ==
  IF parts = <<>> THEN <<>>
  ELSE IF Len(parts) = 1 THEN Head(parts)
  ELSE Head(parts) \o <<32>> \o JoinSpaced(Tail(parts))

\* A fingerprint whose bytes are not padded to two digits.
getKeyFingerprintUnpadded(pubKeyB64, hash) ==
  LET bytes == base64ToArray(pubKeyB64)
      hex == ToUpperCase(JoinAll([i \in 1..Len(hash) |-> ToString16(hash[i])]))
      blocks == MatchFours(hex)
  IN IF ~bytes.ok THEN bytes
     ELSE IF blocks = JsonNull THEN Throw("TypeError")
     ELSE Ok(Str(JoinSpaced(blocks)))

getKeyFingerprint(pubKeyB64, hash) ==
  LET bytes == base64ToArray(pubKeyB64)
      hex == ToUpperCase(JoinAll([i \in 1..Len(hash) |-> PadStart2(ToString16(hash[i]))]))
      blocks == MatchFours(hex)
  IN IF ~bytes.ok THEN bytes
     ELSE IF blocks = JsonNull THEN Throw("TypeError")
     ELSE Ok(Str(JoinSpaced(blocks)))

(***************************************************************************)
(* utils/backup.  salt and iv are the random draws of one call, now is the *)
(* time it reads.                                                          *)
(***************************************************************************)
BACKUP_MAGIC == "CIPHERCHAT_BACKUP_V1"

\* iterations of deriveBackupKey
BackupIterations == 150000

ErrParse == "Invalid backup file - could not parse JSON"

ErrNotBackup == "Invalid backup file - not a CipherChat backup"

ErrWrongPassword == "Wrong backup password - could not decrypt"

deriveBackupKey(password, salt) == Pbkdf2(TextEncode(password), salt, BackupIterations)

encryptBackup(backupData, backupPassword, salt, iv, now) ==
  LET key == deriveBackupKey(backupPassword, salt)
      jsonStr == JSONstringify(backupData)
      encoded == TextEncode(jsonStr)
      salt64 == arrayToBase64(salt)
      iv64 == arrayToBase64(iv)
      ciphertext == arrayToBase64(AesGcmEncrypt(key, iv, encoded))
  IN IF ~salt64.ok THEN salt64
     ELSE IF ~iv64.ok THEN iv64
     ELSE IF ~ciphertext.ok THEN ciphertext
     ELSE Ok(JSONstringify([magic |-> BACKUP_MAGIC,
                            version |-> "1.0",
                            createdAt |-> now,
                            salt |-> salt64.val,
                            iv |-> iv64.val,
                            ciphertext |-> ciphertext.val,
                            stats |-> backupData.stats,
                            owner |-> backupData.owner.username]))

\* The result of decryptBackup, with the cryptographic operations it ran.
BackupResult(result, ops) ==
  [ok |-> result.ok, val |-> result.val, err |-> result.err, ops |-> ops]

BackupMagicOf(pkg) == IF "magic" \in DOMAIN pkg THEN pkg.magic ELSE "undefined"

\* A decoding whose second try block has no catch.
decryptBackupUncaught(backupFileContent, backupPassword) ==
  LET parsed == JSONparse(backupFileContent)
      pkg == parsed.val
  IN IF ~parsed.ok THEN BackupResult(Throw(ErrParse), <<>>)
     ELSE IF pkg = JsonNull THEN BackupResult(Throw("TypeError"), <<>>)
     ELSE IF BackupMagicOf(pkg) # BACKUP_MAGIC
       THEN BackupResult(Throw(ErrNotBackup), <<>>)
     ELSE LET salt == base64ToArray(Field(pkg, "salt"))
              iv == base64ToArray(Field(pkg, "iv"))
              ciphertext == base64ToArray(Field(pkg, "ciphertext"))
          IN IF ~salt.ok \/ ~iv.ok \/ ~ciphertext.ok
               THEN BackupResult(Throw("InvalidCharacterError"), <<>>)
             ELSE LET key == deriveBackupKey(backupPassword, salt.val)
                      decrypted == AesGcmDecrypt(key, iv.val, ciphertext.val)
                  IN IF ~decrypted.ok
                       THEN BackupResult(decrypted, <<"deriveKey", "decrypt">>)
                     ELSE BackupResult(JSONparse(TextDecode(decrypted.val)),
                                       <<"deriveKey", "decrypt">>)

decryptBackup(backupFileContent, backupPassword) ==
  LET parsed == JSONparse(backupFileContent)
      pkg == parsed.val
  IN IF ~parsed.ok THEN BackupResult(Throw(ErrParse), <<>>)
     ELSE IF pkg = JsonNull THEN BackupResult(Throw("TypeError"), <<>>)
     ELSE IF BackupMagicOf(pkg) # BACKUP_MAGIC
       THEN BackupResult(Throw(ErrNotBackup), <<>>)
     ELSE LET salt == base64ToArray(Field(pkg, "salt"))
              iv == base64ToArray(Field(pkg, "iv"))
              ciphertext == base64ToArray(Field(pkg, "ciphertext"))
          IN IF ~salt.ok \/ ~iv.ok \/ ~ciphertext.ok
               THEN BackupResult(Throw(ErrWrongPassword), <<>>)
             ELSE LET key == deriveBackupKey(backupPassword, salt.val)
                      decrypted == AesGcmDecrypt(key, iv.val, ciphertext.val)
                  IN IF ~decrypted.ok
                       THEN BackupResult(Throw(ErrWrongPassword), <<"deriveKey", "decrypt">>)
                     ELSE LET data == JSONparse(TextDecode(decrypted.val))
                          IN IF ~data.ok
                               THEN BackupResult(Throw(ErrWrongPassword),
                                                 <<"deriveKey", "decrypt">>)
                             ELSE BackupResult(data, <<"deriveKey", "decrypt">>)

(***************************************************************************)
(* What changing one bit of a base64 text does to it: the bytes it decodes *)
(* to change ("alter"), a character leaves the base64 alphabet ("bad"), or *)
(* only the slack bits of the last character change ("slack").             *)
(***************************************************************************)
Tampers(b64) ==
  [how : {"alter"}, at : 1..MaxTamperPos]
  \cup [how : {"bad"}, at : 1..MaxTamperPos]
  \cup [how : {"slack"}, at : 1..(2 ^ SlackBits(ByteLen(b64.bytes)) - 1)]

Tamper(b64, t) ==
  CASE t.how = "alter" -> [b64 EXCEPT !.bytes = Altered(b64.bytes, t.at)]
    [] t.how = "bad" -> [b64 EXCEPT !.bad = TRUE]
    [] OTHER -> [b64 EXCEPT !.slack = t.at]

BundleFields == {"ciphertext", "encKey", "iv"}

(***************************************************************************)
(* State.                                                                  *)
(***************************************************************************)
VARIABLES
  mPc,       \* message round: "input", "sealed" or "opened"
  mPlain,    \* the plaintext handed to encryptMessage
  mPub,      \* the key pair whose public key it is encrypted for
  mSealed,   \* what encryptMessage returned
  mPkg,      \* the bundle handed to decryptMessage
  mTamper,   \* the field of the bundle that was changed and how, or None
  mPriv,     \* the key pair whose private key decrypts
  mOut,      \* what decryptMessage returned
  vPc,       \* private-key round: "input", "wrapped" or "opened"
  vKey,      \* the key pair whose private key is wrapped
  vPass,     \* the passphrase handed to encryptPrivateKey
  vEnv,      \* what encryptPrivateKey returned
  vTry,      \* the passphrase handed to decryptPrivateKey
  vOut,      \* what decryptPrivateKey returned
  bPc,       \* backup round: "input", "encoded" or "decoded"
  bPayload,  \* the backupData handed to encryptBackup
  bPw,       \* the backup password handed to encryptBackup
  bFile,     \* what encryptBackup returned
  bDoc,      \* the document handed to decryptBackup
  bEdit,     \* how the document differs from the file written, or None
  bTry,      \* the backup password handed to decryptBackup
  bOut,      \* what decryptBackup returned
  userDocs,  \* server: the User collection, by username
  msgDocs,   \* server: the Message collection, in order of creation
  session,   \* per browser: AuthProvider's user and privateKey, or None
  activeContact, \* per browser: ChatPage's activeContact, or None
  loading,   \* per browser: ChatWindow's loading
  messages,  \* per browser: ChatWindow's messages
  wire,      \* per browser: 'new_message' events on the way to its socket
  sentText,  \* per message id: the text sendMessage encrypted
  localStorage, \* per browser: the items of window.localStorage, as <<key, value>>
  backupFile, \* the file doBackup downloaded, or None
  backups,   \* server: the Backup collection, by username
  restoreResult, \* what the last restore was asked and how it ended, or None
  created,    \* per message: the document as POST /messages created it
  lPc,       \* login round: "stored" or "answered"
  lUser,     \* the user whose account is logged in to
  lDoc,      \* the user document the server holds
  lTamper,   \* the field of its stored envelope that was changed and how, or None
  lTyped,    \* the passphrase typed into the login form
  lOut,      \* what login returned
  lReload,    \* whether the response interceptor sent the page back to "/"
  dPc,       \* decryptAll round: "loaded" or "shown"
  dUser,     \* the currentUser of the ChatWindow
  dKey,      \* its privateKey
  dRaw,      \* the raw messages handed to decryptAll
  dOut,       \* what decryptAll returned
  fPc,       \* fingerprint round: "input" or "shown"
  fKey,      \* the public key handed to getKeyFingerprint
  fHash,     \* the SHA-256 digest of its bytes
  fOut,      \* what getKeyFingerprint returned
  fAgain,     \* what it returned when called once more
  resent,    \* the backupData a client sent to POST /backup/restore and how often, or None
  backupDocs, \* server: the Backup collection, in order of insertion
  recordReqs, \* server: the findOneAndUpdate of each POST /backup/record in progress
  wContact,  \* one ChatWindow: the username of its contact
  wMessages, \* its messages
  wLoading,  \* its loading
  wLoads,    \* the runs of its load effect that have not finished
  wIncoming, \* the runs of handleIncoming that have not finished
  sockets,   \* server: the state of each socket and the user it authenticated as
  onlineUsers, \* server: onlineUsers, the socket id kept per user
  isOnline,  \* server: isOnline of each user document
  dbWrites   \* server: the findByIdAndUpdate calls that have not completed

msgVars == <<mPc, mPlain, mPub, mSealed, mPkg, mTamper, mPriv, mOut>>

vaultVars == <<vPc, vKey, vPass, vEnv, vTry, vOut>>

backupVars == <<bPc, bPayload, bPw, bFile, bDoc, bEdit, bTry, bOut>>

chatVars ==
  <<userDocs, msgDocs, session, activeContact, loading, messages, wire, sentText,
    localStorage>>

restoreVars == <<backupFile, backups, restoreResult, created>>

loginVars == <<lPc, lUser, lDoc, lTamper, lTyped, lOut, lReload>>

listVars == <<dPc, dUser, dKey, dRaw, dOut>>

printVars == <<fPc, fKey, fHash, fOut, fAgain>>

twiceVars == <<resent>>

recordVars == <<backupDocs, recordReqs>>

windowVars == <<wContact, wMessages, wLoading, wLoads, wIncoming>>

presenceVars == <<sockets, onlineUsers, isOnline, dbWrites>>

asyncVars == <<twiceVars, recordVars, windowVars, presenceVars>>

vars == <<msgVars, vaultVars, backupVars, chatVars, restoreVars, loginVars, listVars, printVars, asyncVars>>

\* What a round of one kind leaves alone.
notMsg == <<vaultVars, backupVars, chatVars, restoreVars, loginVars, listVars, printVars, asyncVars>>

notVault == <<msgVars, backupVars, chatVars, restoreVars, loginVars, listVars, printVars, asyncVars>>

notBackup == <<msgVars, vaultVars, chatVars, restoreVars, loginVars, listVars, printVars, asyncVars>>

notChat == <<msgVars, vaultVars, backupVars, restoreVars, loginVars, listVars, printVars, asyncVars>>

\* What backup and restore leave alone.
notRestore == <<msgVars, vaultVars, backupVars, loginVars, listVars, printVars, asyncVars>>

Plaintexts == {Str(cu) : cu \in SeqsUpTo(Alphabet, MaxLen)}

\* Passphrases and backup passwords: "", "a", "A", "aa", "aA", ...
Secrets == {Str(cu) : cu \in SeqsUpTo({97, 65}, MaxLen)}

(***************************************************************************)
(* One round of encryptMessage / decryptMessage on drawn inputs.           *)
(***************************************************************************)
MsgIdle ==
  /\ mPc = "off"
  /\ mPlain = None
  /\ mPub = 0
  /\ mSealed = None
  /\ mPkg = None
  /\ mTamper = None
  /\ mPriv = 0
  /\ mOut = None

MsgInit ==
  /\ mPc = "input"
  /\ mPlain \in Plaintexts
  /\ mPub \in KeyPairs
  /\ mSealed = None
  /\ mPkg = None
  /\ mTamper = None
  /\ mPriv = 0
  /\ mOut = None

MsgEncrypt ==
  /\ mPc = "input"
  /\ \E k \in 1..MaxRand, n \in 1..MaxRand :
       mSealed' = encryptMessage(mPlain, generateKeyPair(mPub).publicKey,
                                 Random(k, 32), Random(n, 12))
  /\ mPkg' = mSealed'.val
  /\ mPc' = "sealed"
  /\ UNCHANGED <<mPlain, mPub, mTamper, mPriv, mOut, notMsg>>

MsgTamper ==
  /\ mPc = "sealed"
  /\ mSealed.ok
  /\ mTamper = None
  /\ \E f \in BundleFields :
       \E t \in Tampers(mPkg[f]) :
         /\ mPkg' = [mPkg EXCEPT ![f] = Tamper(mPkg[f], t)]
         /\ mTamper' = [field |-> f, how |-> t.how]
  /\ UNCHANGED <<mPc, mPlain, mPub, mSealed, mPriv, mOut, notMsg>>

MsgDecrypt ==
  /\ mPc = "sealed"
  /\ mSealed.ok
  /\ \E k \in KeyPairs :
       /\ mPriv' = k
       /\ mOut' = decryptMessage(mPkg, generateKeyPair(k).privateKey)
  /\ mPc' = "opened"
  /\ UNCHANGED <<mPlain, mPub, mSealed, mPkg, mTamper, notMsg>>

MsgNext == MsgEncrypt \/ MsgTamper \/ MsgDecrypt

(***************************************************************************)
(* One round of encryptPrivateKey / decryptPrivateKey on drawn inputs.     *)
(***************************************************************************)
VaultIdle ==
  /\ vPc = "off"
  /\ vKey = 0
  /\ vPass = None
  /\ vEnv = None
  /\ vTry = None
  /\ vOut = None

VaultInit ==
  /\ vPc = "input"
  /\ vKey \in KeyPairs
  /\ vPass \in Secrets
  /\ vEnv = None
  /\ vTry = None
  /\ vOut = None

VaultEncrypt ==
  /\ vPc = "input"
  /\ \E s \in 1..MaxRand, n \in 1..MaxRand :
       vEnv' = encryptPrivateKey(generateKeyPair(vKey).privateKey, vPass,
                                 Random(s, 16), Random(n, 12))
  /\ vPc' = "wrapped"
  /\ UNCHANGED <<vKey, vPass, vTry, vOut, notVault>>

VaultDecrypt ==
  /\ vPc = "wrapped"
  /\ vEnv.ok
  /\ \E p \in Secrets :
       /\ vTry' = p
       /\ vOut' = decryptPrivateKey(vEnv.val, p)
  /\ vPc' = "opened"
  /\ UNCHANGED <<vKey, vPass, vEnv, notVault>>

VaultNext == VaultEncrypt \/ VaultDecrypt

(***************************************************************************)
(* One round of encryptBackup / decryptBackup on drawn inputs.             *)
(***************************************************************************)
\* Messages of the largest backup payload drawn.
LargeBackup == 400

\* A message as POST /backup/generate lists it.
PayloadMessage(i) ==
  [_id |-> i,
   sender |-> [username |-> "alice", publicKey |-> generateKeyPair(1).publicKey],
   recipient |-> [username |-> "bob", publicKey |-> generateKeyPair(2).publicKey],
   encryptedForRecipient |->
     encryptMessage(Str(<<97>>), generateKeyPair(2).publicKey,
                    Random(2 * i - 1, 32), Random(2 * i - 1, 12)).val,
   encryptedForSender |->
     encryptMessage(Str(<<97>>), generateKeyPair(1).publicKey,
                    Random(2 * i, 32), Random(2 * i, 12)).val,
   read |-> FALSE,
   createdAt |-> i]

\* The backupData POST /backup/generate returns for alice with n messages.
Payload(n) ==
  [version |-> "1.0",
   createdAt |-> "t0",
   owner |-> [username |-> "alice", publicKey |-> generateKeyPair(1).publicKey],
   contacts |-> <<[username |-> "bob", publicKey |-> generateKeyPair(2).publicKey]>>,
   messages |-> [i \in 1..n |-> PayloadMessage(i)],
   stats |-> [totalMessages |-> n, totalContacts |-> 1]]

Payloads == {Payload(n) : n \in {0, 1, 3, LargeBackup}}

\* Ways a document handed to decryptBackup differs from the file written.
HeaderEdits ==
  {[field |-> "magic", to |-> "SOMETHING_ELSE"], [field |-> "magic", to |-> "undefined"],
   [field |-> "version", to |-> "2.0"], [field |-> "version", to |-> "undefined"],
   [field |-> "document", to |-> "null"], [field |-> "document", to |-> "a"]}

EditDocument(doc, e) ==
  LET pkg == doc.val
  IN CASE e.field = "document" ->
            IF e.to = "null" THEN Str(<<110, 117, 108, 108>>) ELSE Str(<<97>>)
       [] e.to = "undefined" ->
            JSONstringify([f \in DOMAIN pkg \ {e.field} |-> pkg[f]])
       [] OTHER -> JSONstringify([pkg EXCEPT ![e.field] = e.to])

BackupIdle ==
  /\ bPc = "off"
  /\ bPayload = None
  /\ bPw = None
  /\ bFile = None
  /\ bDoc = None
  /\ bEdit = None
  /\ bTry = None
  /\ bOut = None

BackupInit ==
  /\ bPc = "input"
  /\ bPayload \in Payloads
  /\ bPw \in Secrets
  /\ bFile = None
  /\ bDoc = None
  /\ bEdit = None
  /\ bTry = None
  /\ bOut = None

BackupEncrypt ==
  /\ bPc = "input"
  /\ \E s \in 1..MaxRand, n \in 1..MaxRand :
       bFile' = encryptBackup(bPayload, bPw, Random(s, 16), Random(n, 12), "t1")
  /\ bDoc' = bFile'.val
  /\ bPc' = "encoded"
  /\ UNCHANGED <<bPayload, bPw, bEdit, bTry, bOut, notBackup>>

BackupEdit ==
  /\ bPc = "encoded"
  /\ bFile.ok
  /\ bEdit = None
  /\ \E e \in HeaderEdits :
       /\ bEdit' = e
       /\ bDoc' = EditDocument(bDoc, e)
  /\ UNCHANGED <<bPc, bPayload, bPw, bFile, bTry, bOut, notBackup>>

\* The fields of a backup file that hold the sealed payload.
SealedFields == {"salt", "iv", "ciphertext"}

\* The salt, iv or ciphertext of the document is changed in a bit, or the
\* field is missing from it.
BackupTamper ==
  /\ bPc = "encoded"
  /\ bFile.ok
  /\ bEdit = None
  /\ \E f \in SealedFields :
       \/ \E t \in Tampers(bDoc.val[f]) :
            /\ bEdit' = [field |-> f, t |-> t]
            /\ bDoc' = JSONstringify([bDoc.val EXCEPT ![f] = Tamper(@, t)])
       \/ /\ bEdit' = [field |-> f, to |-> "undefined"]
          /\ bDoc' = EditDocument(bDoc, [field |-> f, to |-> "undefined"])
  /\ UNCHANGED <<bPc, bPayload, bPw, bFile, bTry, bOut, notBackup>>

BackupDecrypt ==
  /\ bPc = "encoded"
  /\ bFile.ok
  /\ \E p \in Secrets :
       /\ bTry' = p
       /\ bOut' = decryptBackup(bDoc, p)
  /\ bPc' = "decoded"
  /\ UNCHANGED <<bPayload, bPw, bFile, bDoc, bEdit, notBackup>>

BackupNext == BackupEncrypt \/ BackupEdit \/ BackupTamper \/ BackupDecrypt

(***************************************************************************)
(* The application: two people, each at a browser, and the server.         *)
(***************************************************************************)
\* Messages the Message collection holds at most.
MaxMsgs == 2

Users == {"alice", "bob"}

\* The ObjectId of a user's document.
UserId(u) == IF u = "alice" THEN 1 ELSE 2

\* The key pair generateKeyPair draws when u registers.
KeyOf(u) == UserId(u)

\* The passphrase u registers with (eight characters, as handleRegister and
\* the User schema require): "aaaaaaaa" and "Aaaaaaaa".
PassphraseOf(u) ==
  Str(<<IF u = "alice" THEN 97 ELSE 65, 97, 97, 97, 97, 97, 97, 97>>)

Passphrases == {PassphraseOf(u) : u \in Users}

\* What is typed into the message box: " ", "a" and U+FEFF "a" " ".
Inputs == {Str(<<32>>), Str(<<97>>), Str(<<65279, 97, 32>>)}

\* Code units String.prototype.trim removes: white space and line
\* terminators, U+FEFF among them.
IsWhiteSpace(c) ==
  c \in {9, 10, 11, 12, 13, 32, 160, 5760, 8232, 8233, 8239, 8287, 12288, 65279}
        \cup (8192..8202)

RECURSIVE TrimStart(_)
TrimStart(cu) ==
  IF cu # <<>> /\ IsWhiteSpace(Head(cu)) THEN TrimStart(Tail(cu)) ELSE cu

RECURSIVE TrimEnd(_)
TrimEnd(cu) ==
  IF cu # <<>> /\ IsWhiteSpace(cu[Len(cu)]) THEN TrimEnd(SubSeq(cu, 1, Len(cu) - 1))
  ELSE cu

\* input.trim()
Trim(text) == Str(TrimEnd(TrimStart(text.cu)))

\* The plaintext decryptAll and handleIncoming show for a message they
\* could not decrypt: "[Unable to decrypt]".
UnableToDecrypt ==
  Str(<<91, 85, 110, 97, 98, 108, 101, 32, 116, 111, 32, 100, 101, 99, 114, 121,
        112, 116, 93>>)

\* bcrypt.hash / bcrypt.compare
Bcrypt(password) == [kind |-> "bcrypt", pw |-> password]

matchPassword(doc, entered) == doc.password = Bcrypt(entered)

\* userSchema.methods.toPublicJSON
\* Document.toJSON: the whole document.
toJSON(doc) == doc

toPublicJSON(doc) == [_id |-> doc._id, username |-> doc.username, publicKey |-> doc.publicKey]

\* The contact Sidebar hands to onSelectContact for a user document.
ContactOf(doc) == [_id |-> doc._id, username |-> doc.username, publicKey |-> doc.publicKey]

\* The username of the user document with an id.
UsernameOfId(id) == CHOOSE u \in Users : UserId(u) = id

\* populate('sender', 'username publicKey')
PopulateSender(docs, id) ==
  LET doc == docs[UsernameOfId(id)]
  IN [_id |-> doc._id, username |-> doc.username, publicKey |-> doc.publicKey]

\* populate('recipient', 'username')
PopulateRecipient(docs, id) ==
  LET doc == docs[UsernameOfId(id)]
  IN [_id |-> doc._id, username |-> doc.username]

\* A Message document as GET /messages/:username returns it.
PopulatedMessage(docs, m) ==
  [_id |-> m._id,
   sender |-> PopulateSender(docs, m.sender),
   recipient |-> PopulateRecipient(docs, m.recipient),
   encryptedForRecipient |-> m.encryptedForRecipient,
   encryptedForSender |-> m.encryptedForSender,
   read |-> m.read,
   createdAt |-> m.createdAt,
   __v |-> 0]

\* The socketPayload of POST /messages, which is also its response.
SocketPayload(docs, m) ==
  [_id |-> m._id,
   sender |-> PopulateSender(docs, m.sender),
   recipient |-> PopulateRecipient(docs, m.recipient),
   encryptedForRecipient |-> m.encryptedForRecipient,
   encryptedForSender |-> m.encryptedForSender,
   createdAt |-> m.createdAt,
   read |-> FALSE]

RECURSIVE SortByCreatedAt(_)
\* .sort({ createdAt: 1 })
SortByCreatedAt(ms) ==
  IF ms = <<>> THEN <<>>
  ELSE LET i == CHOOSE i \in 1..Len(ms) :
                  \A j \in 1..Len(ms) :
                    ms[i].createdAt < ms[j].createdAt
                      \/ (ms[i].createdAt = ms[j].createdAt /\ i <= j)
       IN <<ms[i]>> \o SortByCreatedAt([k \in 1..(Len(ms) - 1) |->
                                           IF k < i THEN ms[k] ELSE ms[k + 1]])

\* Message.find of GET /messages/:username: the messages between two users.
Between(ms, me, other) ==
  LET IsBetween(m) == \/ m.sender = me /\ m.recipient = other
                      \/ m.sender = other /\ m.recipient = me
  IN SortByCreatedAt(SelectSeq(ms, IsBetween))

\* Message.updateMany of GET /messages/:username and PATCH /messages/read:
\* the unread messages from other to me become read.
MarkRead(ms, me, other) ==
  [i \in 1..Len(ms) |->
     IF ms[i].sender = other /\ ms[i].recipient = me /\ ~ms[i].read
       THEN [ms[i] EXCEPT !.read = TRUE]
     ELSE ms[i]]

\* { ...msg, plaintext, decryptFailed }
Decrypted(msg, plaintext, decryptFailed) ==
  [plaintext |-> plaintext, decryptFailed |-> decryptFailed] @@ msg

\* A decryptAll that takes the sender's bundle for the recipient's.
isSenderInverted(msg, currentUser) ==
  ~(\/ msg.sender._id = currentUser._id
    \/ msg.sender.username = currentUser.username)

\* A decryptAll without the try/catch around each message: Promise.all
\* rejects when one message fails, and nothing is returned.
decryptAllAborting(rawMsgs, currentUser, privateKey) ==
  LET Plain(msg) ==
        decryptMessage(IF \/ msg.sender._id = currentUser._id
                          \/ msg.sender.username = currentUser.username
                         THEN msg.encryptedForSender
                       ELSE msg.encryptedForRecipient, privateKey)
  IN IF \E i \in 1..Len(rawMsgs) : ~Plain(rawMsgs[i]).ok THEN <<>>
     ELSE [i \in 1..Len(rawMsgs) |->
             Decrypted(rawMsgs[i], Plain(rawMsgs[i]).val, FALSE)]

\* isSender of decryptAll.  msg.sender is the populated user in every
\* response of GET /messages/:username, so the test of a bare id never
\* decides.
isSender(msg, currentUser) ==
  \/ msg.sender._id = currentUser._id
  \/ msg.sender.username = currentUser.username

decryptAll(rawMsgs, currentUser, privateKey) ==
  [i \in 1..Len(rawMsgs) |->
     LET msg == rawMsgs[i]
         pkg == IF isSender(msg, currentUser) THEN msg.encryptedForSender
                ELSE msg.encryptedForRecipient
         plaintext == decryptMessage(pkg, privateKey)
     IN IF plaintext.ok THEN Decrypted(msg, plaintext.val, FALSE)
        ELSE Decrypted(msg, UnableToDecrypt, TRUE)]

\* The two bundles of the n-th message from one session key, wrapped twice.
sendMessageOneKey(text, contact, currentUser, n) ==
  [encryptedForRecipient |->
     encryptMessage(text, contact.publicKey, Random(2 * n - 1, 32), Random(2 * n - 1, 12)),
   encryptedForSender |->
     encryptMessage(text, currentUser.publicKey, Random(2 * n - 1, 32), Random(2 * n - 1, 12))]

\* The two encryptMessage calls of sendMessage for the n-th message: each
\* draws a key and a nonce of its own.
sendMessageBundles(text, contact, currentUser, n) ==
  [encryptedForRecipient |->
     encryptMessage(text, contact.publicKey, Random(2 * n - 1, 32), Random(2 * n - 1, 12)),
   encryptedForSender |->
     encryptMessage(text, currentUser.publicKey, Random(2 * n, 32), Random(2 * n, 12))]

\* The body of POST /messages that sendMessage builds for the n-th message,
\* with the text left in it.
MessageBodyWithText(text, contact, currentUser, n) ==
  LET sealed == sendMessageBundles(text, contact, currentUser, n)
  IN [recipientUsername |-> contact.username,
      text |-> text,
      encryptedForRecipient |-> sealed.encryptedForRecipient.val,
      encryptedForSender |-> sealed.encryptedForSender.val]

\* The body of POST /messages that sendMessage builds for the n-th message.
MessageBody(text, contact, currentUser, n) ==
  LET sealed == sendMessageBundles(text, contact, currentUser, n)
  IN [recipientUsername |-> contact.username,
      encryptedForRecipient |-> sealed.encryptedForRecipient.val,
      encryptedForSender |-> sealed.encryptedForSender.val]

\* The body of POST /auth/register that handleRegister and register build:
\* the key pair is generated and the private key wrapped in the browser.
RegisterBody(u) ==
  LET pair == generateKeyPair(KeyOf(u))
      encryptedPrivateKey ==
        encryptPrivateKey(pair.privateKey, PassphraseOf(u),
                          Random(UserId(u), 16), Random(UserId(u), 12))
  IN [username |-> u,
      password |-> PassphraseOf(u),
      publicKey |-> pair.publicKey,
      encryptedPrivateKey |-> encryptedPrivateKey.val]

\* The body of POST /auth/login that login builds.
LoginBody(username, password) == [username |-> username, password |-> password]

\* generateToken: the JWT signed for a user id.
generateToken(id) == [kind |-> "jwt", id |-> id]

\* User.create of POST /auth/register, with the pre-save hook that hashes
\* the password and the schema's empty contacts.
CreateUser(body, id) ==
  [_id |-> id,
   username |-> body.username,
   password |-> Bcrypt(body.password),
   publicKey |-> body.publicKey,
   encryptedPrivateKey |-> body.encryptedPrivateKey,
   contacts |-> <<>>]

\* POST /auth/login
authLogin(docs, body) ==
  IF body.password = Str(<<>>)
    THEN [status |-> 400, data |-> [message |-> "Username and password required"]]
  ELSE LET user == docs[body.username]
       IN IF user = None
            THEN [status |-> 401, data |-> [message |-> "Invalid credentials"]]
          ELSE IF ~matchPassword(user, body.password)
            THEN [status |-> 401, data |-> [message |-> "Invalid credentials"]]
          ELSE [status |-> 200,
                data |-> [token |-> generateToken(user._id),
                          user |-> toPublicJSON(user),
                          encryptedPrivateKey |-> user.encryptedPrivateKey]]

\* localStorage.setItem for each of a set of items, and removeItem.
setItems(storage, items) ==
  {old \in storage : \A new \in items : new[1] # old[1]} \cup items

removeItem(storage, key) == {item \in storage : item[1] # key}

\* The response interceptor of utils/api: a 401 removes the stored token
\* and user before the page goes back to "/".
onResponse(response, storage) ==
  IF response.status = 401 THEN removeItem(removeItem(storage, "cc_token"), "cc_user")
  ELSE storage

\* A login that also keeps the decrypted private key in localStorage.
loginPersistingKey(response, password) ==
  IF response.status # 200
    THEN [success |-> FALSE, message |-> response.data.message]
  ELSE LET data == response.data
           privKey == decryptPrivateKey(data.encryptedPrivateKey, password)
       IN IF ~privKey.ok THEN [success |-> FALSE, message |-> "Login failed"]
          ELSE [success |-> TRUE,
                items |-> {<<"cc_token", data.token>>,
                           <<"cc_user", JSONstringify(data.user)>>,
                           <<"cc_private_key", privKey.val>>},
                user |-> data.user,
                privateKey |-> privKey.val]

\* A login that stores the token and the user before it decrypts the key.
loginStoringFirst(response, password) ==
  IF response.status # 200
    THEN [success |-> FALSE, message |-> response.data.message]
  ELSE LET data == response.data
           items == {<<"cc_token", data.token>>, <<"cc_user", JSONstringify(data.user)>>}
           privKey == decryptPrivateKey(data.encryptedPrivateKey, password)
       IN IF ~privKey.ok
            THEN [success |-> FALSE, message |-> "Login failed", items |-> items]
          ELSE [success |-> TRUE, items |-> items, user |-> data.user,
                privateKey |-> privKey.val]

\* AuthProvider.login once POST /auth/login has answered: what it returns,
\* the items it stores and the state it sets.
login(response, password) ==
  IF response.status # 200
    THEN [success |-> FALSE, message |-> response.data.message]
  ELSE LET data == response.data
           privKey == decryptPrivateKey(data.encryptedPrivateKey, password)
       IN IF ~privKey.ok THEN [success |-> FALSE, message |-> "Login failed"]
          ELSE [success |-> TRUE,
                items |-> {<<"cc_token", data.token>>,
                           <<"cc_user", JSONstringify(data.user)>>},
                user |-> data.user,
                privateKey |-> privKey.val]

\* A listing that takes each bundle for the other.
BackupMessageSwapped(docs, m) ==
  LET sender == docs[UsernameOfId(m.sender)]
      recipient == docs[UsernameOfId(m.recipient)]
  IN [_id |-> m._id,
      sender |-> [username |-> sender.username, publicKey |-> sender.publicKey],
      recipient |-> [username |-> recipient.username, publicKey |-> recipient.publicKey],
      encryptedForRecipient |-> m.encryptedForSender,
      encryptedForSender |-> m.encryptedForRecipient,
      read |-> m.read,
      createdAt |-> m.createdAt]

\* A message as POST /backup/generate lists it: both bundles as stored.
BackupMessage(docs, m) ==
  LET sender == docs[UsernameOfId(m.sender)]
      recipient == docs[UsernameOfId(m.recipient)]
  IN [_id |-> m._id,
      sender |-> [username |-> sender.username, publicKey |-> sender.publicKey],
      recipient |-> [username |-> recipient.username, publicKey |-> recipient.publicKey],
      encryptedForRecipient |-> m.encryptedForRecipient,
      encryptedForSender |-> m.encryptedForSender,
      read |-> m.read,
      createdAt |-> m.createdAt]

\* POST /backup/generate for the user a token names: the backupData of the
\* response.
generateBackup(docs, msgs, reqUser) ==
  LET IsMine(m) == m.sender = reqUser._id \/ m.recipient = reqUser._id
      found == SortByCreatedAt(SelectSeq(msgs, IsMine))
      me == docs[reqUser.username]
  IN [version |-> "1.0",
      createdAt |-> "t0",
      owner |-> [username |-> reqUser.username, publicKey |-> reqUser.publicKey],
      contacts |-> [i \in 1..Len(me.contacts) |->
                      [username |-> me.contacts[i].username,
                       publicKey |-> me.contacts[i].publicKey]],
      messages |-> [i \in 1..Len(found) |-> BackupMessage(docs, found[i])],
      stats |-> [totalMessages |-> Len(found), totalContacts |-> Len(me.contacts)]]

\* The backup passwords typed into BackupModal (six characters, as doBackup
\* requires): "aaaaaa" and "Aaaaaa".
BackupPasswords == {Str(<<c, 97, 97, 97, 97, 97>>) : c \in {97, 65}}

\* The body of POST /backup/restore that doRestore builds from the file
\* doBackup wrote for a backupData.
RestoreBody(backupData, password) ==
  LET file == encryptBackup(backupData, password, Random(1, 16), Random(1, 12), "t1")
  IN [backupData |-> decryptBackup(file.val, password).val]

ChatInit ==
  /\ userDocs = [u \in Users |-> None]
  /\ msgDocs = <<>>
  /\ session = [u \in Users |-> None]
  /\ activeContact = [u \in Users |-> None]
  /\ loading = [u \in Users |-> FALSE]
  /\ messages = [u \in Users |-> <<>>]
  /\ wire = [u \in Users |-> <<>>]
  /\ sentText = <<>>
  /\ localStorage = [u \in Users |-> {}]

\* handleRegister and register with a register that keeps the private key it
\* generated as the session's key.
RegisterKeepingKey(u) ==
  /\ session[u] = None
  /\ Len(PassphraseOf(u).cu) >= 8
  /\ LET body == RegisterBody(u)
         doc == CreateUser(body, UserId(u))
     IN /\ body.encryptedPrivateKey # None
        /\ userDocs[u] = None
        /\ userDocs' = [userDocs EXCEPT ![u] = doc]
        /\ localStorage' =
             [localStorage EXCEPT ![u] =
                setItems(@, {<<"cc_token", generateToken(doc._id)>>,
                             <<"cc_user", JSONstringify(toPublicJSON(doc))>>})]
        /\ session' = [session EXCEPT ![u] =
                         [user |-> toPublicJSON(doc),
                          privateKey |-> generateKeyPair(KeyOf(u)).privateKey]]
  /\ UNCHANGED <<msgDocs, activeContact, loading, messages, wire, sentText, notChat>>

\* AuthPage.handleRegister, AuthProvider.register and POST /auth/register.
Register(u) ==
  /\ session[u] = None
  /\ Len(PassphraseOf(u).cu) >= 8
  /\ LET body == RegisterBody(u)
         doc == CreateUser(body, UserId(u))
     IN /\ body.encryptedPrivateKey # None
        /\ userDocs[u] = None
        /\ userDocs' = [userDocs EXCEPT ![u] = doc]
        /\ localStorage' =
             [localStorage EXCEPT ![u] =
                setItems(@, {<<"cc_token", generateToken(doc._id)>>,
                             <<"cc_user", JSONstringify(toPublicJSON(doc))>>})]
        /\ session' = [session EXCEPT ![u] = [user |-> toPublicJSON(doc),
                                               privateKey |-> JsonNull]]
  /\ UNCHANGED <<msgDocs, activeContact, loading, messages, wire, sentText, notChat>>

\* AuthPage.handleLogin, AuthProvider.login and POST /auth/login.
Login(u, password) ==
  /\ session[u] = None
  /\ LET response == authLogin(userDocs, LoginBody(u, password))
         res == login(response, password)
         storage == onResponse(response, localStorage[u])
     IN IF ~res.success
          THEN /\ localStorage' = [localStorage EXCEPT ![u] = storage]
               /\ UNCHANGED session
        ELSE /\ localStorage' = [localStorage EXCEPT ![u] = setItems(storage, res.items)]
             /\ session' = [session EXCEPT ![u] = [user |-> res.user,
                                                    privateKey |-> res.privateKey]]
  /\ UNCHANGED <<userDocs, msgDocs, activeContact, loading, messages, wire, sentText, notChat>>

\* AuthProvider.logout: the socket disconnects and ChatPage unmounts.
Logout(u) ==
  /\ session[u] # None
  /\ session' = [session EXCEPT ![u] = None]
  /\ activeContact' = [activeContact EXCEPT ![u] = None]
  /\ loading' = [loading EXCEPT ![u] = FALSE]
  /\ messages' = [messages EXCEPT ![u] = <<>>]
  /\ wire' = [wire EXCEPT ![u] = <<>>]
  /\ localStorage' =
       [localStorage EXCEPT ![u] = removeItem(removeItem(@, "cc_token"), "cc_user")]
  /\ UNCHANGED <<userDocs, msgDocs, sentText, notChat>>

\* Sidebar.startChat / handleSelectContact, and the start of ChatWindow's
\* load effect, which runs when the contact's username changes.
SelectContact(u, c) ==
  /\ session[u] # None
  /\ c # u
  /\ userDocs[c] # None
  /\ IF activeContact[u] = None THEN TRUE ELSE activeContact[u].username # c
  /\ activeContact' = [activeContact EXCEPT ![u] = ContactOf(userDocs[c])]
  /\ messages' = [messages EXCEPT ![u] = <<>>]
  /\ loading' = [loading EXCEPT ![u] = TRUE]
  /\ UNCHANGED <<userDocs, msgDocs, session, wire, sentText, localStorage, notChat>>

\* GET /messages/:username and the rest of ChatWindow's load effect.
LoadConversation(u) ==
  /\ loading[u]
  /\ LET me == session[u].user
         other == userDocs[activeContact[u].username]
         found == Between(msgDocs, me._id, other._id)
         data == [i \in 1..Len(found) |-> PopulatedMessage(userDocs, found[i])]
     IN /\ msgDocs' = MarkRead(msgDocs, me._id, other._id)
        /\ messages' = [messages EXCEPT ![u] = decryptAll(data, me, session[u].privateKey)]
  /\ loading' = [loading EXCEPT ![u] = FALSE]
  /\ UNCHANGED <<userDocs, session, activeContact, wire, sentText, localStorage, notChat>>

\* ChatWindow.sendMessage and POST /messages.
SendMessage(u, input) ==
  /\ session[u] # None
  /\ activeContact[u] # None
  /\ Trim(input) # Str(<<>>)
  /\ Len(msgDocs) < MaxMsgs
  /\ LET text == Trim(input)
         contact == activeContact[u]
         me == session[u].user
         n == Len(msgDocs) + 1
         body == MessageBody(text, contact, me, n)
         recipient == userDocs[body.recipientUsername]
         message == [_id |-> n, sender |-> me._id, recipient |-> recipient._id,
                     encryptedForRecipient |-> body.encryptedForRecipient,
                     encryptedForSender |-> body.encryptedForSender,
                     read |-> FALSE, createdAt |-> n]
         socketPayload == SocketPayload(userDocs, message)
         online == session[contact.username] # None
     IN IF body.encryptedForRecipient = None \/ body.encryptedForSender = None
             \/ recipient._id = me._id
          THEN UNCHANGED <<msgDocs, messages, wire, sentText>>
        ELSE /\ msgDocs' = Append(msgDocs, message)
             /\ wire' = [wire EXCEPT ![contact.username] =
                           IF online THEN @ \o <<socketPayload, socketPayload>> ELSE @]
             /\ messages' = [messages EXCEPT ![u] =
                               Append(@, Decrypted(socketPayload, text, FALSE))]
             /\ sentText' = Append(sentText, text)
  /\ UNCHANGED <<userDocs, session, activeContact, loading, localStorage, notChat>>

\* ChatPage.handleNewMessage and ChatWindow's incoming-message effect, with
\* the PATCH /messages/read it sends.
ReceiveMessage(u) ==
  /\ wire[u] # <<>>
  /\ wire' = [wire EXCEPT ![u] = Tail(@)]
  /\ LET incomingMessage == Head(wire[u])
         contact == activeContact[u]
     IN IF contact = None \/ incomingMessage.sender.username # contact.username
          THEN UNCHANGED <<messages, msgDocs>>
        ELSE LET plaintext == decryptMessage(incomingMessage.encryptedForRecipient,
                                             session[u].privateKey)
                 exists == \E i \in 1..Len(messages[u]) :
                             messages[u][i]._id = incomingMessage._id
                 shown == IF plaintext.ok
                            THEN Decrypted(incomingMessage, plaintext.val, FALSE)
                          ELSE Decrypted(incomingMessage, UnableToDecrypt, TRUE)
             IN /\ messages' = [messages EXCEPT ![u] =
                                  IF exists THEN @ ELSE Append(@, shown)]
                /\ msgDocs' = IF plaintext.ok
                                THEN MarkRead(msgDocs, session[u].user._id, contact._id)
                              ELSE msgDocs
  /\ UNCHANGED <<userDocs, session, activeContact, loading, sentText, localStorage, notChat>>

Next ==
  \/ \E u \in Users : Register(u)
  \/ \E u \in Users, p \in Passphrases : Login(u, p)
  \/ \E u \in Users : Logout(u)
  \/ \E u \in Users, c \in Users : SelectContact(u, c)
  \/ \E u \in Users : LoadConversation(u)
  \/ \E u \in Users, input \in Inputs : SendMessage(u, input)
  \/ \E u \in Users : ReceiveMessage(u)

(***************************************************************************)
(* Backup and restore of a conversation: BackupModal and routes/backup.    *)
(***************************************************************************)
\* Messages the Message collection holds when the backup is taken, at most.
MaxStored == 2

\* !v of JavaScript for the values of the model: undefined, null and the
\* empty text are falsy; an object and a text with a character are not.
Falsy(v) ==
  /\ "kind" \in DOMAIN v
  /\ \/ v.kind \in {"undefined", "null", "none"}
     \/ v.kind = "str" /\ v.cu = <<>>
     \/ v.kind = "b64" /\ ByteLen(v.bytes) = 0 /\ ~v.bad

\* validate of POST /messages: pkg.ciphertext && pkg.encKey && pkg.iv
validate(pkg) == \A f \in BundleFields : ~Falsy(Field(pkg, f))

\* A messageSchema whose texts are not required.
messageSchemaLax(doc) == TRUE

\* The validation Message.create runs for messageSchema: the three texts of
\* each bundle are required, and a required String rejects the empty text.
messageSchemaValid(doc) ==
  \A b \in {"encryptedForRecipient", "encryptedForSender"} :
    \A f \in BundleFields : ~Falsy(Field(Field(doc, b), f))

\* The _id Message.create gives a document that brings none.
FreshId(msgs) == CHOOSE n \in 1..(Len(msgs) + 1) : \A i \in 1..Len(msgs) : msgs[i]._id # n

\* A loop over backupData.contacts that pushes every contact it is given.
RestoreContactsBlind(contacts, list) ==
  [contacts |-> contacts \o [i \in 1..Len(list) |->
                               [username |-> list[i].username,
                                publicKey |-> list[i].publicKey]],
   restored |-> Len(list)]

RECURSIVE RestoreContacts(_, _)
\* The loop of POST /backup/restore over backupData.contacts.
RestoreContacts(contacts, list) ==
  IF list = <<>> THEN [contacts |-> contacts, restored |-> 0]
  ELSE LET contact == Head(list)
           already == \E i \in 1..Len(contacts) : contacts[i].username = contact.username
           rest == RestoreContacts(
                     IF already THEN contacts
                     ELSE Append(contacts, [username |-> contact.username,
                                            publicKey |-> contact.publicKey]),
                     Tail(list))
       IN [contacts |-> rest.contacts,
           restored |-> rest.restored + (IF already THEN 0 ELSE 1)]

RECURSIVE RestoreMessages(_, _, _)
\* The loop of POST /backup/restore over backupData.messages: a message is
\* created unless its sender or recipient is unknown, its _id exists, or
\* Message.create rejects it (the catch of the loop goes on to the next).
RestoreMessages(docs, msgs, list) ==
  IF list = <<>> THEN [msgs |-> msgs, restored |-> 0]
  ELSE LET msg == Head(list)
           Known(name) == IF name \in DOMAIN docs THEN docs[name] ELSE None
           Document(sender, recipient) ==
             [_id |-> IF "_id" \in DOMAIN msg THEN msg._id ELSE FreshId(msgs),
              sender |-> sender._id,
              recipient |-> recipient._id,
              encryptedForRecipient |-> Field(msg, "encryptedForRecipient"),
              encryptedForSender |-> Field(msg, "encryptedForSender"),
              read |-> msg.read,
              createdAt |-> msg.createdAt]
           Skip(sender, recipient) ==
             \/ sender = None \/ recipient = None
             \/ "_id" \in DOMAIN msg /\ \E i \in 1..Len(msgs) : msgs[i]._id = msg._id
             \/ ~messageSchemaValid(msg)
           Step(sender, recipient, skip) ==
             LET Count(rest) ==
                   [msgs |-> rest.msgs, restored |-> rest.restored + (IF skip THEN 0 ELSE 1)]
             IN Count(RestoreMessages(docs,
                                      IF skip THEN msgs
                                      ELSE Append(msgs, Document(sender, recipient)),
                                      Tail(list)))
           Find(sender, recipient) == Step(sender, recipient, Skip(sender, recipient))
       IN Find(Known(msg.sender.username), Known(msg.recipient.username))

\* What POST /backup/restore does once the structure of the body is
\* accepted, without the test of the owner.
restoreBackupAnyOwner(docs, msgs, reqUser, body) ==
  LET backupData == body.backupData
      contacts == RestoreContacts(reqUser.contacts, backupData.contacts)
      restored == RestoreMessages(docs, msgs, backupData.messages)
  IN [status |-> 200,
      data |-> [message |-> "Restore completed",
                restoredMessages |-> restored.restored,
                restoredContacts |-> contacts.restored],
      docs |-> [docs EXCEPT ![reqUser.username].contacts = contacts.contacts],
      msgs |-> restored.msgs]

\* POST /backup/restore for the user a token names: the response and the
\* User and Message collections after it.
restoreBackup(docs, msgs, reqUser, body) ==
  LET backupData == body.backupData
  IN IF backupData = JsonNull \/ "messages" \notin DOMAIN backupData
          \/ "contacts" \notin DOMAIN backupData
       THEN [status |-> 400, data |-> [message |-> "Invalid backup data structure"],
             docs |-> docs, msgs |-> msgs]
     ELSE IF "owner" \notin DOMAIN backupData
       THEN [status |-> 500, data |-> [message |-> "Failed to restore backup"],
             docs |-> docs, msgs |-> msgs]
     ELSE IF backupData.owner.username # reqUser.username
       THEN [status |-> 403, data |-> [message |-> "This backup belongs to a different user"],
             docs |-> docs, msgs |-> msgs]
     ELSE LET contacts == RestoreContacts(reqUser.contacts, backupData.contacts)
              restored == RestoreMessages(docs, msgs, backupData.messages)
          IN [status |-> 200,
              data |-> [message |-> "Restore completed",
                        restoredMessages |-> restored.restored,
                        restoredContacts |-> contacts.restored],
              docs |-> [docs EXCEPT ![reqUser.username].contacts = contacts.contacts],
              msgs |-> restored.msgs]

\* The user document POST /auth/register creates for u.
RegisteredUser(u) == CreateUser(RegisterBody(u), UserId(u))

\* The n-th Message document, as POST /messages creates it for the text "a"
\* that its sender typed to the other user.
StoredMessage(n, from) ==
  LET to == CHOOSE u \in Users : u # from
      body == MessageBody(Str(<<97>>), ContactOf(RegisteredUser(to)),
                          toPublicJSON(RegisteredUser(from)), n)
  IN [_id |-> n, sender |-> UserId(from), recipient |-> UserId(to),
      encryptedForRecipient |-> body.encryptedForRecipient,
      encryptedForSender |-> body.encryptedForSender,
      read |-> FALSE, createdAt |-> n]

\* The Message collections the backup is taken of: up to MaxStored messages,
\* each from either user.
Stores ==
  UNION {{[i \in 1..n |-> StoredMessage(i, from[i])] : from \in [1..n -> Users]} :
         n \in 0..MaxStored}

\* The contact POST /users/contacts pushes for a user document.
AddedContact(doc) == [user |-> doc._id, username |-> doc.username, publicKey |-> doc.publicKey]

\* The other of the two users.
Other(u) == CHOOSE v \in Users : v # u

RestoreIdle ==
  /\ backupFile = None
  /\ backups = [u \in Users |-> None]
  /\ restoreResult = None
  /\ created = <<>>

\* Both users have registered, added each other as contacts or not, exchanged
\* messages, and are logged in with no conversation open.
RestoreInit ==
  /\ \E added \in BOOLEAN :
       userDocs = [u \in Users |->
                     [RegisteredUser(u) EXCEPT !.contacts =
                        IF added THEN <<AddedContact(RegisteredUser(Other(u)))>>
                        ELSE <<>>]]
  /\ msgDocs \in Stores
  /\ created = msgDocs
  /\ session = [u \in Users |->
                  [user |-> toPublicJSON(RegisteredUser(u)),
                   privateKey |-> generateKeyPair(KeyOf(u)).privateKey]]
  /\ localStorage = [u \in Users |->
                       {<<"cc_token", generateToken(UserId(u))>>,
                        <<"cc_user", JSONstringify(toPublicJSON(RegisteredUser(u)))>>}]
  /\ activeContact = [u \in Users |-> None]
  /\ loading = [u \in Users |-> FALSE]
  /\ messages = [u \in Users |-> <<>>]
  /\ wire = [u \in Users |-> <<>>]
  /\ sentText = [i \in 1..Len(msgDocs) |-> Str(<<97>>)]
  /\ backupFile = None
  /\ backups = [u \in Users |-> None]
  /\ restoreResult = None

notStore == <<session, activeContact, loading, messages, wire, sentText, localStorage>>

\* BackupModal.doBackup('local'): POST /backup/generate, encryptBackup, the
\* download, and POST /backup/record.  sizeBytes and lastBackupAt of the
\* record are read by nothing here and left out.
DoBackup(u, password) ==
  /\ session[u] # None
  /\ backupFile = None
  /\ Len(password.cu) >= 6
  /\ LET backupData == generateBackup(userDocs, msgDocs, userDocs[u])
         encryptedContent == encryptBackup(backupData, password,
                                           Random(1, 16), Random(1, 12), "t1")
     IN /\ encryptedContent.ok
        /\ backupFile' = [content |-> encryptedContent.val]
        /\ backups' = [backups EXCEPT ![u] =
                         [type |-> "local",
                          messageCount |-> backupData.stats.totalMessages,
                          contactCount |-> backupData.stats.totalContacts,
                          status |-> "completed"]]
  /\ UNCHANGED <<userDocs, msgDocs, restoreResult, created, notStore, notRestore>>

\* The Message collection loses a document after the backup was taken: what
\* a restore is for.
LoseMessage(i) ==
  /\ backupFile # None
  /\ i \in 1..Len(msgDocs)
  /\ msgDocs' = [k \in 1..(Len(msgDocs) - 1) |-> IF k < i THEN msgDocs[k] ELSE msgDocs[k + 1]]
  /\ UNCHANGED <<userDocs, backupFile, backups, restoreResult, created, notStore, notRestore>>

\* A user document loses its contacts after the backup was taken.
LoseContacts(u) ==
  /\ backupFile # None
  /\ userDocs[u].contacts # <<>>
  /\ userDocs' = [userDocs EXCEPT ![u].contacts = <<>>]
  /\ UNCHANGED <<msgDocs, backupFile, backups, restoreResult, created, notStore, notRestore>>

\* BackupModal.doRestore on the downloaded file: decryptBackup, the test of
\* the owner, and POST /backup/restore.
DoRestore(u, password) ==
  /\ session[u] # None
  /\ backupFile # None
  /\ LET backupData == decryptBackup(backupFile.content, password)
     IN IF ~backupData.ok
          THEN /\ restoreResult' = [by |-> u, sent |-> FALSE, status |-> 0,
                                    error |-> <<backupData.err>>]
               /\ UNCHANGED <<userDocs, msgDocs>>
        ELSE IF backupData.val.owner.username # session[u].user.username
          THEN /\ restoreResult' =
                    [by |-> u, sent |-> FALSE, status |-> 0,
                     error |-> <<"This backup belongs to @", backupData.val.owner.username,
                                 ", not @", session[u].user.username>>]
               /\ UNCHANGED <<userDocs, msgDocs>>
        ELSE LET res == restoreBackup(userDocs, msgDocs, userDocs[u],
                                      [backupData |-> backupData.val])
             IN /\ restoreResult' = [by |-> u, sent |-> TRUE, status |-> res.status,
                                     data |-> res.data]
                /\ userDocs' = res.docs
                /\ msgDocs' = res.msgs
  /\ UNCHANGED <<backupFile, backups, created, notStore, notRestore>>

\* POST /backup/restore sent with u's token and the backupData of the file,
\* by a client that is not BackupModal.
PostRestore(u, password) ==
  /\ session[u] # None
  /\ backupFile # None
  /\ LET backupData == decryptBackup(backupFile.content, password)
     IN /\ backupData.ok
        /\ LET res == restoreBackup(userDocs, msgDocs, userDocs[u],
                                    [backupData |-> backupData.val])
           IN /\ restoreResult' = [by |-> u, sent |-> TRUE, status |-> res.status,
                                   data |-> res.data]
              /\ userDocs' = res.docs
              /\ msgDocs' = res.msgs
  /\ UNCHANGED <<backupFile, backups, created, notStore, notRestore>>

RestoreNext ==
  \/ \E u \in Users, w \in BackupPasswords : DoBackup(u, w)
  \/ \E i \in 1..MaxStored : LoseMessage(i)
  \/ \E u \in Users : LoseContacts(u)
  \/ \E u \in Users, w \in BackupPasswords : DoRestore(u, w)
  \/ \E u \in Users, w \in BackupPasswords : PostRestore(u, w)

(***************************************************************************)
(* The server alone: POST /messages and POST /backup/restore as a client   *)
(* that holds a token can send them, whatever the body.                    *)
(***************************************************************************)
\* Messages the Message collection holds at most.
MaxServed == 2

\* Messages a backupData sent to POST /backup/restore lists at most.
MaxForged == 2

\* POST /messages for the user a token names: the response and the Message
\* collection after it.
postMessage(docs, msgs, reqUser, body) ==
  LET Reply(status, message) ==
        [status |-> status, data |-> [message |-> message], msgs |-> msgs]
      Created(message) ==
        [status |-> 201, data |-> SocketPayload(docs, message), msgs |-> Append(msgs, message)]
      Create(recipient, id) ==
        IF recipient = None THEN Reply(404, "Recipient not found")
        ELSE IF recipient._id = reqUser._id THEN Reply(400, "Cannot message yourself")
        ELSE Created([_id |-> id, sender |-> reqUser._id, recipient |-> recipient._id,
                      encryptedForRecipient |-> body.encryptedForRecipient,
                      encryptedForSender |-> body.encryptedForSender,
                      read |-> FALSE, createdAt |-> id])
  IN IF \/ body.recipientUsername = ""
        \/ Falsy(Field(body, "encryptedForRecipient"))
        \/ Falsy(Field(body, "encryptedForSender"))
       THEN Reply(400, "Missing required fields")
     ELSE IF ~validate(body.encryptedForRecipient) \/ ~validate(body.encryptedForSender)
       THEN Reply(400, "Invalid encrypted payload")
     ELSE Create(IF body.recipientUsername \in DOMAIN docs
                   THEN docs[body.recipientUsername] ELSE None,
                 FreshId(msgs))

\* Both users as POST /auth/register created them.
Registered == [alice |-> RegisteredUser("alice"), bob |-> RegisteredUser("bob")]

\* How a body sent to POST /messages differs from the one sendMessage builds.
Spoils ==
  {"intact", "noSenderBundle", "emptyCiphertext", "noIv", "toSelf", "toStranger",
   "noRecipient"}

\* The body of POST /messages u sends for the text "a", spoiled.
SpoiledBody(u, how) ==
  LET Spoil(body) ==
        CASE how = "noSenderBundle" ->
               [f \in DOMAIN body \ {"encryptedForSender"} |-> body[f]]
          [] how = "emptyCiphertext" ->
               [body EXCEPT !.encryptedForRecipient.ciphertext = B64(Raw(<<>>))]
          [] how = "noIv" ->
               [body EXCEPT !.encryptedForSender = [f \in {"ciphertext", "encKey"} |-> @[f]]]
          [] how = "toSelf" -> [body EXCEPT !.recipientUsername = u]
          [] how = "toStranger" -> [body EXCEPT !.recipientUsername = "carol"]
          [] how = "noRecipient" -> [body EXCEPT !.recipientUsername = ""]
          [] OTHER -> body
  IN Spoil(MessageBody(Str(<<97>>), ContactOf(Registered[Other(u)]),
                       toPublicJSON(Registered[u]), 3))

\* The messages a backupData sent by u may list: one the store may hold, one
\* with its _id and other bundles, and new ones that are u's own, between
\* others, addressed to their sender, short of a text or a bundle, without an
\* _id, or from a user the server does not know.
ForgedKinds ==
  {"stored", "rewritten", "own", "foreign", "selfAddressed", "emptyKey", "noBundle",
   "noId", "strangers"}

ForgedMessage(u, kind) ==
  LET Forge(registered, first, second, mine, theirs) ==
        LET Listed(m) == BackupMessage(registered, m)
            Own(id) == Listed([mine EXCEPT !._id = id])
            Without(m, field) == [f \in DOMAIN m \ {field} |-> m[f]]
        IN CASE kind = "stored" -> Listed(first)
             [] kind = "rewritten" -> Listed([second EXCEPT !._id = 1])
             [] kind = "own" -> Own(101)
             [] kind = "foreign" ->
                  Listed([theirs EXCEPT !._id = 102, !.recipient = UserId(Other(u))])
             [] kind = "selfAddressed" ->
                  Listed([mine EXCEPT !._id = 103, !.recipient = UserId(u)])
             [] kind = "emptyKey" ->
                  [Own(104) EXCEPT !.encryptedForSender.encKey = B64(Raw(<<>>))]
             [] kind = "noBundle" -> Without(Own(105), "encryptedForRecipient")
             [] kind = "noId" -> Without(Own(0), "_id")
             [] OTHER -> [Own(106) EXCEPT !.sender.username = "carol"]
  IN Forge(Registered, StoredMessage(1, "alice"), StoredMessage(2, "alice"),
           StoredMessage(2, u), StoredMessage(2, Other(u)))

\* The kinds in the order a backupData lists them.
ForgedOrder ==
  <<"stored", "rewritten", "own", "foreign", "selfAddressed", "emptyKey", "noBundle",
    "noId", "strangers">>

\* The lists of kinds a backupData may hold: up to MaxForged different kinds.
ForgedPicks ==
  {SelectSeq(ForgedOrder, LAMBDA kind : kind \in listed) :
     listed \in {some \in SUBSET ForgedKinds : Cardinality(some) <= MaxForged}}

\* The messages each user may list, by kind.
Forged == [u \in Users |-> [kind \in ForgedKinds |-> ForgedMessage(u, kind)]]

\* A backupData: who it names as owner, the contacts and the messages in it,
\* taken from the registered users and the messages u may list.
ForgedPayloadOf(registered, forged, u, owner, contacts, picks) ==
  [version |-> "1.0",
   createdAt |-> "t0",
   owner |-> [username |-> owner, publicKey |-> registered[owner].publicKey],
   contacts |-> [i \in 1..contacts |->
                   [username |-> Other(u), publicKey |-> registered[Other(u)].publicKey]],
   messages |-> [i \in 1..Len(picks) |-> forged[u][picks[i]]],
   stats |-> [totalMessages |-> Len(picks), totalContacts |-> contacts]]

ForgedPayload(u, owner, contacts, picks) ==
  ForgedPayloadOf(Registered, Forged, u, owner, contacts, picks)

\* The backupData u sends: its owner is u or the other user, it lists the
\* other user as a contact never, once or twice, and up to MaxForged messages.
ForgedPayloads(u) ==
  {ForgedPayload(u, owner, contacts, picks) :
     owner \in Users, contacts \in 0..2, picks \in ForgedPicks}

\* Both users are registered; the store is empty or holds the first message.
ServerInit ==
  /\ userDocs = Registered
  /\ msgDocs \in {<<>>, <<StoredMessage(1, "alice")>>}
  /\ session = [u \in Users |-> None]
  /\ activeContact = [u \in Users |-> None]
  /\ loading = [u \in Users |-> FALSE]
  /\ messages = [u \in Users |-> <<>>]
  /\ wire = [u \in Users |-> <<>>]
  /\ sentText = <<>>
  /\ localStorage = [u \in Users |-> {}]
  /\ backupFile = None
  /\ backups = [u \in Users |-> None]
  /\ restoreResult = None
  /\ created = <<>>

\* POST /messages with u's token.
PostMessage(u, body) ==
  /\ Len(msgDocs) < MaxServed
  /\ LET res == postMessage(userDocs, msgDocs, userDocs[u], body)
     IN /\ msgDocs' = res.msgs
        /\ restoreResult' = [by |-> u, sent |-> TRUE, status |-> res.status, data |-> res.data]
  /\ UNCHANGED <<userDocs, backupFile, backups, created, notStore, notRestore>>

\* POST /backup/restore with u's token.
PostBackupData(u, backupData) ==
  /\ Len(msgDocs) + Len(backupData.messages) <= MaxServed
  /\ LET res == restoreBackup(userDocs, msgDocs, userDocs[u], [backupData |-> backupData])
     IN /\ userDocs' = res.docs
        /\ msgDocs' = res.msgs
        /\ restoreResult' = [by |-> u, sent |-> TRUE, status |-> res.status, data |-> res.data]
  /\ UNCHANGED <<backupFile, backups, created, notStore, notRestore>>

ServerNext ==
  \/ \E u \in Users, how \in Spoils : PostMessage(u, SpoiledBody(u, how))
  \/ \E u \in Users : \E backupData \in ForgedPayloads(u) : PostBackupData(u, backupData)

(***************************************************************************)
(* One login against an account whose stored envelope may have been        *)
(* corrupted: AuthProvider.login and POST /auth/login.                     *)
(***************************************************************************)
EnvelopeFields == {"ct", "salt", "iv"}

\* What is typed as passphrase: the registered ones and the empty one.
TypedPassphrases == Passphrases \cup {Str(<<>>)}

LoginIdle ==
  /\ lPc = "off"
  /\ lUser = None
  /\ lDoc = None
  /\ lTamper = None
  /\ lTyped = None
  /\ lOut = None
  /\ lReload = None

LoginInit ==
  /\ lPc = "stored"
  /\ lUser \in Users
  /\ \/ /\ lTamper = None
        /\ lDoc = RegisteredUser(lUser)
     \/ \E f \in EnvelopeFields :
          \E t \in Tampers(RegisteredUser(lUser).encryptedPrivateKey[f]) :
            /\ lTamper = [field |-> f, t |-> t]
            /\ lDoc = [RegisteredUser(lUser) EXCEPT
                         !.encryptedPrivateKey[f] = Tamper(@, t)]
  /\ lTyped = None
  /\ lOut = None
  /\ lReload = None

\* handleLogin: POST /auth/login, the response interceptor, and login.
LoginAttempt ==
  /\ lPc = "stored"
  /\ \E p \in TypedPassphrases :
       LET docs == [u \in Users |-> IF u = lUser THEN lDoc ELSE None]
           Set(res, storage) ==
             /\ lOut' = res
             /\ localStorage' =
                  [localStorage EXCEPT ![lUser] =
                     setItems(storage, IF "items" \in DOMAIN res THEN res.items ELSE {})]
             /\ session' =
                  [session EXCEPT ![lUser] =
                     IF "user" \in DOMAIN res
                       THEN [user |-> res.user, privateKey |-> res.privateKey]
                     ELSE @]
           Answer(response) ==
             /\ lReload' = (response.status = 401)
             /\ Set(login(response, p), onResponse(response, localStorage[lUser]))
       IN /\ lTyped' = p
          /\ Answer(authLogin(docs, LoginBody(lUser, p)))
  /\ lPc' = "answered"
  /\ UNCHANGED <<lUser, lDoc, lTamper, msgVars, vaultVars, backupVars, userDocs, msgDocs,
               activeContact, loading, messages, wire, sentText, restoreVars, listVars,
               printVars, asyncVars>>

LoginNext == LoginAttempt

(***************************************************************************)
(* One call of decryptAll on a drawn list of raw messages.                 *)
(***************************************************************************)
\* Raw messages in the list handed to decryptAll, at most.
MaxList == 3

\* What a raw message is to the user who loads it: received or sent and
\* intact, or received with a ciphertext that fails AES-GCM, or received with
\* a wrapped key that fails RSA-OAEP.
RawKinds == {"received", "sent", "badCiphertext", "badEncKey"}

\* The i-th message of GET /messages/:username as u loads it.
RawMessage(u, i, kind) ==
  LET docs == [v \in Users |-> RegisteredUser(v)]
      m == PopulatedMessage(docs, StoredMessage(i, IF kind = "sent" THEN u ELSE Other(u)))
  IN CASE kind = "badCiphertext" ->
            [m EXCEPT !.encryptedForRecipient.ciphertext =
                        Tamper(@, [how |-> "alter", at |-> 1])]
       [] kind = "badEncKey" ->
            [m EXCEPT !.encryptedForRecipient.encKey =
                        Tamper(@, [how |-> "alter", at |-> 1])]
       [] OTHER -> m

ListIdle ==
  /\ dPc = "off"
  /\ dUser = None
  /\ dKey = None
  /\ dRaw = None
  /\ dOut = None

\* The private key is the user's own, still null (after register), or
\* another user's.
ListInit ==
  /\ dPc = "loaded"
  /\ dUser = toPublicJSON(RegisteredUser("alice"))
  /\ dKey \in {generateKeyPair(k).privateKey : k \in KeyPairs} \cup {JsonNull}
  /\ \E n \in 0..MaxList :
       \E kinds \in [1..n -> RawKinds] :
         dRaw = [i \in 1..n |-> RawMessage("alice", i, kinds[i])]
  /\ dOut = None

ListDecrypt ==
  /\ dPc = "loaded"
  /\ dOut' = decryptAll(dRaw, dUser, dKey)
  /\ dPc' = "shown"
  /\ UNCHANGED <<dUser, dKey, dRaw, msgVars, vaultVars, backupVars, chatVars, restoreVars,
                 loginVars, printVars, asyncVars>>

ListNext == ListDecrypt

(***************************************************************************)
(* getKeyFingerprint called twice on a drawn public key.                   *)
(***************************************************************************)
\* The digests drawn: byte i is first + (i - 1) * step modulo 256, which
\* yields bytes below sixteen, bytes with letter digits, and 00 and FF.
Digests ==
  {[i \in 1..DigestBytes |-> (first + (i - 1) * step) % 256] :
     first \in {0, 9, 10, 15, 16, 171, 255}, step \in {0, 1, 17, 85}}

\* The public keys drawn: a key as generateKeyPair exports it, and one with a
\* character that is not base64.
PrintKeys ==
  {generateKeyPair(k).publicKey : k \in KeyPairs}
  \cup {Tamper(generateKeyPair(1).publicKey, [how |-> "bad", at |-> 1])}

PrintIdle ==
  /\ fPc = "off"
  /\ fKey = None
  /\ fHash = None
  /\ fOut = None
  /\ fAgain = None

PrintInit ==
  /\ fPc = "input"
  /\ fKey \in PrintKeys
  /\ fHash \in Digests
  /\ fOut = None
  /\ fAgain = None

PrintTwice ==
  /\ fPc = "input"
  /\ fOut' = getKeyFingerprint(fKey, fHash)
  /\ fAgain' = getKeyFingerprint(fKey, fHash)
  /\ fPc' = "shown"
  /\ UNCHANGED <<fKey, fHash, msgVars, vaultVars, backupVars, chatVars, restoreVars,
                 loginVars, listVars, asyncVars>>

PrintNext == PrintTwice

(***************************************************************************)
(* Requests and handlers that overlap: a restore sent twice, POST          *)
(* /backup/record, ChatWindow's effects, and the socket handlers.          *)
(***************************************************************************)
TwiceIdle == resent = None

RecordIdle ==
  /\ backupDocs = <<>>
  /\ recordReqs = <<>>

WindowIdle ==
  /\ wContact = None
  /\ wMessages = <<>>
  /\ wLoading = FALSE
  /\ wLoads = <<>>
  /\ wIncoming = {}

PresenceIdle ==
  /\ sockets = <<>>
  /\ onlineUsers = [u \in {} |-> 0]
  /\ isOnline = [u \in Users |-> FALSE]
  /\ dbWrites = <<>>

AsyncIdle == TwiceIdle /\ RecordIdle /\ WindowIdle /\ PresenceIdle

\* What a restore that is sent twice leaves alone.
notTwice ==
  <<msgVars, vaultVars, backupVars, loginVars, listVars, printVars, recordVars, windowVars,
    presenceVars>>

\* Both users are registered, with each other as contact or not; the store
\* is empty or holds the first message; no restore has been sent.
TwiceInit ==
  /\ \E added \in BOOLEAN :
       userDocs = [u \in Users |->
                     [Registered[u] EXCEPT !.contacts =
                        IF added THEN <<AddedContact(Registered[Other(u)])>> ELSE <<>>]]
  /\ msgDocs \in {<<>>, <<StoredMessage(1, "alice")>>}
  /\ session = [u \in Users |-> None]
  /\ activeContact = [u \in Users |-> None]
  /\ loading = [u \in Users |-> FALSE]
  /\ messages = [u \in Users |-> <<>>]
  /\ wire = [u \in Users |-> <<>>]
  /\ sentText = <<>>
  /\ localStorage = [u \in Users |-> {}]
  /\ backupFile = None
  /\ backups = [u \in Users |-> None]
  /\ restoreResult = None
  /\ created = <<>>
  /\ resent = None

\* POST /backup/restore with u's token, for the times-th time, and what the
\* client keeps of the request.
SendRestore(u, owner, contacts, picks, times) ==
  LET Answer(res) ==
        /\ userDocs' = res.docs
        /\ msgDocs' = res.msgs
        /\ restoreResult' = [by |-> u, sent |-> TRUE, status |-> res.status, data |-> res.data]
        /\ resent' = [by |-> u, owner |-> owner, contacts |-> contacts, picks |-> picks,
                      times |-> times,
                      first |-> IF times = 1 THEN [status |-> res.status, data |-> res.data]
                                ELSE resent.first]
  IN /\ Answer(restoreBackup(userDocs, msgDocs, userDocs[u],
                             [backupData |-> ForgedPayload(u, owner, contacts, picks)]))
     /\ UNCHANGED <<backupFile, backups, created, notStore, notTwice>>

\* A client sends a backupData.
SendBackupData(u, owner, contacts, picks) ==
  /\ resent = None
  /\ SendRestore(u, owner, contacts, picks, 1)

\* The client sends the same backupData once more.
SendBackupDataAgain ==
  /\ resent # None
  /\ resent.times = 1
  /\ SendRestore(resent.by, resent.owner, resent.contacts, resent.picks, 2)

TwiceNext ==
  \/ \E u \in Users, owner \in Users, contacts \in 0..2 :
       \E picks \in ForgedPicks : SendBackupData(u, owner, contacts, picks)
  \/ SendBackupDataAgain

(***************************************************************************)
(* POST /backup/record: findOneAndUpdate with upsert on a collection whose *)
(* index on (user, type) is not unique.  The query and the write of one    *)
(* call are two steps of the database, and calls overlap.                  *)
(***************************************************************************)
\* POST /backup/record requests the server is sent, at most.
MaxRecords == 3

\* The enum of backupSchema.type.
BackupTypes == {"local", "google_drive"}

notRecord ==
  <<msgVars, vaultVars, backupVars, chatVars, restoreVars, loginVars, listVars, printVars,
    twiceVars, windowVars, presenceVars>>

RecordInit ==
  /\ backupDocs = <<>>
  /\ recordReqs = <<>>

\* The index of the first Backup document of a user and a type, or 0.
FindBackup(docs, user, type) ==
  IF \E i \in 1..Len(docs) : docs[i].user = user /\ docs[i].type = type
    THEN CHOOSE i \in 1..Len(docs) :
           /\ docs[i].user = user /\ docs[i].type = type
           /\ \A j \in 1..(i - 1) : ~(docs[j].user = user /\ docs[j].type = type)
  ELSE 0

\* POST /backup/record arrives with u's token: findOneAndUpdate is called.
PostRecord(u, type) ==
  /\ Len(recordReqs) < MaxRecords
  /\ recordReqs' = Append(recordReqs, [user |-> UserId(u), type |-> type,
                                       sizeBytes |-> Len(recordReqs) + 1,
                                       phase |-> "query", found |-> 0])
  /\ UNCHANGED <<backupDocs, notRecord>>

\* The database looks for a document that matches { user, type }.
QueryRecord(r) ==
  /\ recordReqs[r].phase = "query"
  /\ recordReqs' = [recordReqs EXCEPT ![r].phase = "write",
                                      ![r].found = FindBackup(backupDocs, recordReqs[r].user,
                                                              recordReqs[r].type)]
  /\ UNCHANGED <<backupDocs, notRecord>>

\* The database updates the document it matched, or inserts one (upsert),
\* and the route answers.
WriteRecord(r) ==
  /\ recordReqs[r].phase = "write"
  /\ LET req == recordReqs[r]
         doc == [user |-> req.user, type |-> req.type, sizeBytes |-> req.sizeBytes,
                 status |-> "completed"]
     IN backupDocs' = IF req.found = 0 THEN Append(backupDocs, doc)
                      ELSE [backupDocs EXCEPT ![req.found] = doc]
  /\ recordReqs' = [recordReqs EXCEPT ![r].phase = "done"]
  /\ UNCHANGED notRecord

RecordNext ==
  \/ \E u \in Users, type \in BackupTypes : PostRecord(u, type)
  \/ \E r \in 1..Len(recordReqs) : QueryRecord(r)
  \/ \E r \in 1..Len(recordReqs) : WriteRecord(r)

(***************************************************************************)
(* One ChatWindow whose contact changes while its effects are running.     *)
(* msgDocs holds the messages as GET /messages/:username populates them.   *)
(***************************************************************************)
\* Runs of the load effect, at most.
MaxLoads == 3

\* Messages that arrive while the window is open, at most.
MaxArrivals == 1

\* The users whose conversations the window shows.
WindowContacts == {"bob", "carol"}

WindowUserId(u) == CASE u = "alice" -> 1 [] u = "bob" -> 2 [] OTHER -> 3

\* A user as the client holds it: currentUser, or the contact.
WindowUser(u) ==
  [_id |-> WindowUserId(u), username |-> u,
   publicKey |-> generateKeyPair(WindowUserId(u)).publicKey]

\* The n-th message, sent by a contact to alice.
WindowMessage(n, from) ==
  LET Sent(body) ==
        [_id |-> n,
         sender |-> WindowUser(from),
         recipient |-> [_id |-> WindowUserId("alice"), username |-> "alice"],
         encryptedForRecipient |-> body.encryptedForRecipient,
         encryptedForSender |-> body.encryptedForSender,
         read |-> FALSE, createdAt |-> n, __v |-> 0]
  IN Sent(MessageBody(Str(<<97>>), WindowUser("alice"), WindowUser(from), n))

notWindow ==
  <<msgVars, vaultVars, backupVars, restoreVars, loginVars, listVars, printVars, twiceVars,
    recordVars, presenceVars, userDocs, session, activeContact, loading, messages, wire,
    sentText, localStorage>>

\* alice's window is mounted without a contact; each contact has sent her a
\* message.
WindowInit ==
  /\ userDocs = [u \in Users |-> None]
  /\ msgDocs = <<WindowMessage(1, "bob"), WindowMessage(2, "carol")>>
  /\ session = [u \in Users |-> None]
  /\ activeContact = [u \in Users |-> None]
  /\ loading = [u \in Users |-> FALSE]
  /\ messages = [u \in Users |-> <<>>]
  /\ wire = [u \in Users |-> <<>>]
  /\ sentText = <<>>
  /\ localStorage = [u \in Users |-> {}]
  /\ wContact = None
  /\ wMessages = <<>>
  /\ wLoading = FALSE
  /\ wLoads = <<>>
  /\ wIncoming = {}

\* The contact prop changes: the load effect runs up to api.get.
OpenContact(c) ==
  /\ Len(wLoads) < MaxLoads
  /\ IF wContact = None THEN TRUE ELSE wContact.username # c
  /\ wContact' = WindowUser(c)
  /\ wMessages' = <<>>
  /\ wLoading' = TRUE
  /\ wLoads' = Append(wLoads, [username |-> c, phase |-> "get", data |-> <<>>])
  /\ UNCHANGED <<msgDocs, wIncoming, notWindow>>

\* GET /messages/:username answers a run of the effect; decryptAll starts.
AnswerLoad(i) ==
  /\ wLoads[i].phase = "get"
  /\ LET With(m) == m.sender.username = wLoads[i].username
     IN wLoads' = [wLoads EXCEPT ![i].phase = "decrypt",
                                 ![i].data = SelectSeq(msgDocs, With)]
  /\ UNCHANGED <<msgDocs, wContact, wMessages, wLoading, wIncoming, notWindow>>

\* decryptAll of a run resolves: setMessages(decrypted), then
\* setLoading(false).
FinishLoad(i) ==
  /\ wLoads[i].phase = "decrypt"
  /\ wMessages' = decryptAll(wLoads[i].data, WindowUser("alice"),
                             generateKeyPair(WindowUserId("alice")).privateKey)
  /\ wLoading' = FALSE
  /\ wLoads' = [wLoads EXCEPT ![i].phase = "done", ![i].data = <<>>]
  /\ UNCHANGED <<msgDocs, wContact, wIncoming, notWindow>>

\* A contact sends alice a message: it is stored and emitted, and the
\* incoming-message effect runs up to the await of decryptMessage.
Arrive(c) ==
  /\ Len(msgDocs) < 2 + MaxArrivals
  /\ LET Emit(incomingMessage) ==
           /\ msgDocs' = Append(msgDocs, incomingMessage)
           /\ wIncoming' =
                IF wContact # None /\ incomingMessage.sender.username = wContact.username
                  THEN wIncoming \cup {incomingMessage}
                ELSE wIncoming
     IN Emit(WindowMessage(Len(msgDocs) + 1, c))
  /\ UNCHANGED <<wContact, wMessages, wLoading, wLoads, notWindow>>

\* decryptMessage of handleIncoming resolves or throws: setMessages appends
\* the message unless the list holds its _id.
FinishIncoming(incomingMessage) ==
  /\ incomingMessage \in wIncoming
  /\ wIncoming' = wIncoming \ {incomingMessage}
  /\ LET Show(plaintext) ==
           IF \E i \in 1..Len(wMessages) : wMessages[i]._id = incomingMessage._id
             THEN wMessages
           ELSE Append(wMessages,
                       IF plaintext.ok THEN Decrypted(incomingMessage, plaintext.val, FALSE)
                       ELSE Decrypted(incomingMessage, UnableToDecrypt, TRUE))
     IN wMessages' = Show(decryptMessage(incomingMessage.encryptedForRecipient,
                                         generateKeyPair(WindowUserId("alice")).privateKey))
  /\ UNCHANGED <<msgDocs, wContact, wLoading, wLoads, notWindow>>

WindowNext ==
  \/ \E c \in WindowContacts : OpenContact(c)
  \/ \E i \in 1..Len(wLoads) : AnswerLoad(i)
  \/ \E i \in 1..Len(wLoads) : FinishLoad(i)
  \/ \E c \in WindowContacts : Arrive(c)
  \/ \E incomingMessage \in wIncoming : FinishIncoming(incomingMessage)

(***************************************************************************)
(* Presence: the 'connection' and 'disconnect' handlers of the server.     *)
(* Each runs up to its await; the database write it waits for completes    *)
(* later, in the order the writes were issued.                             *)
(***************************************************************************)
\* Sockets that connect, at most.
MaxSockets == 3

notPresence ==
  <<msgVars, vaultVars, backupVars, chatVars, restoreVars, loginVars, listVars, printVars,
    twiceVars, recordVars, windowVars>>

PresenceInit ==
  /\ sockets = <<>>
  /\ onlineUsers = [u \in {} |-> 0]
  /\ isOnline = [u \in Users |-> FALSE]
  /\ dbWrites = <<>>

\* io.on('connection'): a socket that authenticated as u connects; its id
\* is its place in sockets.
Connect(u) ==
  /\ Len(sockets) < MaxSockets
  /\ sockets' = Append(sockets, [user |-> u, connected |-> TRUE])
  /\ onlineUsers' = [v \in DOMAIN onlineUsers \cup {u} |->
                       IF v = u THEN Len(sockets) + 1 ELSE onlineUsers[v]]
  /\ dbWrites' = Append(dbWrites, [user |-> u, isOnline |-> TRUE])
  /\ UNCHANGED <<isOnline, notPresence>>

\* socket.on('disconnect')
Disconnect(id) ==
  /\ sockets[id].connected
  /\ sockets' = [sockets EXCEPT ![id].connected = FALSE]
  /\ onlineUsers' = [v \in DOMAIN onlineUsers \ {sockets[id].user} |-> onlineUsers[v]]
  /\ dbWrites' = Append(dbWrites, [user |-> sockets[id].user, isOnline |-> FALSE])
  /\ UNCHANGED <<isOnline, notPresence>>

\* User.findByIdAndUpdate of a handler completes.
CompleteWrite ==
  /\ dbWrites # <<>>
  /\ isOnline' = [isOnline EXCEPT ![Head(dbWrites).user] = Head(dbWrites).isOnline]
  /\ dbWrites' = Tail(dbWrites)
  /\ UNCHANGED <<sockets, onlineUsers, notPresence>>

PresenceNext ==
  \/ \E u \in Users : Connect(u)
  \/ \E id \in 1..Len(sockets) : Disconnect(id)
  \/ CompleteWrite

(***************************************************************************)
(* Specifications.                                                         *)
(***************************************************************************)
InitMsg == MsgInit /\ VaultIdle /\ BackupIdle /\ ChatInit /\ RestoreIdle /\ LoginIdle /\ ListIdle /\ PrintIdle /\ AsyncIdle

SpecMsg == InitMsg /\ [][MsgNext]_vars

InitVault == MsgIdle /\ VaultInit /\ BackupIdle /\ ChatInit /\ RestoreIdle /\ LoginIdle /\ ListIdle /\ PrintIdle /\ AsyncIdle

SpecVault == InitVault /\ [][VaultNext]_vars

InitBackup == MsgIdle /\ VaultIdle /\ BackupInit /\ ChatInit /\ RestoreIdle /\ LoginIdle /\ ListIdle /\ PrintIdle /\ AsyncIdle

SpecBackup == InitBackup /\ [][BackupNext]_vars

Init == MsgIdle /\ VaultIdle /\ BackupIdle /\ ChatInit /\ RestoreIdle /\ LoginIdle /\ ListIdle /\ PrintIdle /\ AsyncIdle

Spec == Init /\ [][Next]_vars

InitRestore == MsgIdle /\ VaultIdle /\ BackupIdle /\ RestoreInit /\ LoginIdle /\ ListIdle /\ PrintIdle /\ AsyncIdle

SpecRestore == InitRestore /\ [][RestoreNext]_vars

InitLogin == MsgIdle /\ VaultIdle /\ BackupIdle /\ ChatInit /\ RestoreIdle /\ LoginInit /\ ListIdle /\ PrintIdle /\ AsyncIdle

SpecLogin == InitLogin /\ [][LoginNext]_vars

InitList == MsgIdle /\ VaultIdle /\ BackupIdle /\ ChatInit /\ RestoreIdle /\ LoginIdle /\ ListInit /\ PrintIdle /\ AsyncIdle

SpecList == InitList /\ [][ListNext]_vars

InitServer == MsgIdle /\ VaultIdle /\ BackupIdle /\ ServerInit /\ LoginIdle /\ ListIdle /\ PrintIdle /\ AsyncIdle

SpecServer == InitServer /\ [][ServerNext]_vars

InitTwice ==
  MsgIdle /\ VaultIdle /\ BackupIdle /\ TwiceInit /\ LoginIdle /\ ListIdle /\ PrintIdle
  /\ RecordIdle /\ WindowIdle /\ PresenceIdle

SpecTwice == InitTwice /\ [][TwiceNext]_vars

InitRecord ==
  MsgIdle /\ VaultIdle /\ BackupIdle /\ ChatInit /\ RestoreIdle /\ LoginIdle /\ ListIdle
  /\ PrintIdle /\ TwiceIdle /\ RecordInit /\ WindowIdle /\ PresenceIdle

SpecRecord == InitRecord /\ [][RecordNext]_vars

InitWindow ==
  MsgIdle /\ VaultIdle /\ BackupIdle /\ WindowInit /\ RestoreIdle /\ LoginIdle /\ ListIdle
  /\ PrintIdle /\ TwiceIdle /\ RecordIdle /\ PresenceIdle

SpecWindow == InitWindow /\ [][WindowNext]_vars

InitPresence ==
  MsgIdle /\ VaultIdle /\ BackupIdle /\ ChatInit /\ RestoreIdle /\ LoginIdle /\ ListIdle
  /\ PrintIdle /\ TwiceIdle /\ RecordIdle /\ WindowIdle /\ PresenceInit

SpecPresence == InitPresence /\ [][PresenceNext]_vars

InitPrint ==
  MsgIdle /\ VaultIdle /\ BackupIdle /\ ChatInit /\ RestoreIdle /\ LoginIdle /\ ListIdle /\ PrintInit
  /\ AsyncIdle

SpecPrint == InitPrint /\ [][PrintNext]_vars

(***************************************************************************)
(* Properties of encryptMessage / decryptMessage (SpecMsg).                *)
(***************************************************************************)
MsgOpenedBy(k) == mPc = "opened" /\ mPriv = k

\* C1: decrypting an untouched bundle with the private key of the pair it
\* was encrypted for returns exactly the plaintext that was encrypted.
C1_MessageRoundTrip ==
  MsgOpenedBy(mPub) /\ mTamper = None => mOut.ok /\ mOut.val = mPlain

\* C6 as stated: after any single-bit change of ciphertext, encKey or iv
\* decryptMessage with the matching private key fails.
C6_AnyBitFlipFails ==
  MsgOpenedBy(mPub) /\ mTamper # None => ~mOut.ok

\* C6 as amended: a single-bit change that changes the bytes a field
\* decodes to, or makes its base64 text invalid, makes decryptMessage fail;
\* a change of the slack bits alone returns what the untouched bundle
\* decrypts to.  No change yields any other plaintext.
C6_TamperNeverCorrupts ==
  MsgOpenedBy(mPub) /\ mTamper # None =>
    IF mTamper.how = "slack"
      THEN mOut = decryptMessage(mSealed.val, generateKeyPair(mPub).privateKey)
      ELSE ~mOut.ok

C6_Witness ==
  /\ MsgOpenedBy(mPub)
  /\ mTamper # None
  /\ mTamper.how = "alter"
  /\ mTamper.field = "ciphertext"
  /\ mOut.err = "OperationError"

\* C7: a bundle encrypted for one key pair does not open under the private
\* key of another key pair.
C7_WrongKeyFails ==
  mPc = "opened" /\ mTamper = None /\ mPriv # mPub => ~mOut.ok

C7_Witness ==
  mPc = "opened" /\ mTamper = None /\ mPriv # mPub /\ mOut.err = "OperationError"

(***************************************************************************)
(* Properties of encryptPrivateKey / decryptPrivateKey (SpecVault).        *)
(***************************************************************************)
\* C2: wrapping a private key under a passphrase succeeds, and unwrapping
\* the envelope under the same passphrase returns the key that was wrapped.
C2_VaultRoundTrip ==
  /\ vPc # "input" => vEnv.ok
  /\ vPc = "opened" /\ vTry = vPass =>
       vOut.ok /\ vOut.val = generateKeyPair(vKey).privateKey

C2_Witness ==
  vPc = "opened" /\ vTry = vPass /\ vOut.ok /\ vPass = Str(<<97, 65>>)

\* C3: unwrapping an envelope under a passphrase other than the one that
\* wrapped it fails and returns no value, also when the two differ only in
\* letter case.
C3_WrongPassphraseFails ==
  vPc = "opened" /\ vTry # vPass => ~vOut.ok /\ vOut.val = None

C3_Witness ==
  /\ vPc = "opened"
  /\ vPass = Str(<<97>>)
  /\ vTry = Str(<<65>>)
  /\ vOut.err = "OperationError"

(***************************************************************************)
(* Properties of encryptBackup / decryptBackup (SpecBackup).               *)
(***************************************************************************)
BackupDecoded == bPc = "decoded"

\* C4: encoding a backup payload under a password succeeds, and decoding
\* the file under the same password returns a payload equal to the
\* original, stats and messages included.
C4_BackupRoundTrip ==
  /\ bPc # "input" => bFile.ok
  /\ BackupDecoded /\ bEdit = None /\ bTry = bPw =>
       bOut.ok /\ bOut.val = bPayload

\* C5: decoding a backup file under a password other than the one that
\* encoded it ends in the wrong-password error: it returns no payload and
\* raises no error of another kind.
C5_WrongPasswordError ==
  BackupDecoded /\ bEdit = None /\ bTry # bPw =>
    ~bOut.ok /\ bOut.val = None /\ bOut.err = ErrWrongPassword

C5_Witness ==
  /\ BackupDecoded
  /\ bEdit = None
  /\ bTry # bPw
  /\ bOut.err = ErrWrongPassword
  /\ bOut.ops = <<"deriveKey", "decrypt">>
  /\ Len(bPayload.messages) = 3

\* C8: a document whose magic or version is not the expected one is
\* rejected as not a backup before any key is derived or anything is
\* decrypted.
C8_HeaderCheckedBeforeCrypto ==
  BackupDecoded /\ bEdit # None /\ bEdit.field \in {"magic", "version"} =>
    ~bOut.ok /\ bOut.err = ErrNotBackup /\ bOut.ops = <<>>

(***************************************************************************)
(* Properties of the application (Spec).                                   *)
(***************************************************************************)
\* The symmetric key a bundle's encKey wraps, and the one its ciphertext is
\* sealed under.
WrappedKey(pkg) == pkg.encKey.bytes.m

SealingKey(pkg) == pkg.ciphertext.bytes.key

HoldsOwnKey(u) ==
  /\ session[u] # None
  /\ session[u].privateKey = generateKeyPair(KeyOf(u)).privateKey

\* A displayed message that came from GET /messages/:username.
IsLoaded(m) == "__v" \in DOMAIN m

\* C10: for every message sendMessage stored, decryptAll takes
\* encryptedForSender for its sender and encryptedForRecipient for its
\* recipient, and every message a party holding its own private key has on
\* display, loaded ones included, shows the text that was sent.
C10_BothPartiesRead ==
  /\ \A i \in 1..Len(msgDocs) :
       LET msg == PopulatedMessage(userDocs, msgDocs[i])
       IN /\ isSender(msg, toPublicJSON(userDocs[UsernameOfId(msgDocs[i].sender)]))
          /\ ~isSender(msg, toPublicJSON(userDocs[UsernameOfId(msgDocs[i].recipient)]))
  /\ \A u \in Users :
       HoldsOwnKey(u) =>
         \A i \in 1..Len(messages[u]) :
           /\ ~messages[u][i].decryptFailed
           /\ messages[u][i].plaintext = sentText[messages[u][i]._id]

C10_Witness ==
  \E i \in 1..Len(messages["alice"]), j \in 1..Len(messages["bob"]) :
    LET a == messages["alice"][i]
        b == messages["bob"][j]
    IN /\ IsLoaded(a)
       /\ IsLoaded(b)
       /\ a._id = b._id
       /\ a.sender.username = "alice"
       /\ HoldsOwnKey("alice")
       /\ HoldsOwnKey("bob")
       /\ a.plaintext = Str(<<97>>)
       /\ b.plaintext = Str(<<97>>)

(***************************************************************************)
(* What the server is sent (Spec).                                         *)
(***************************************************************************)
RECURSIVE Seen(_)
\* What a text or a buffer shows to a reader who holds no key: itself and
\* what base64 and UTF-8 decoding yield.  The output of AES-GCM, RSA-OAEP and
\* PBKDF2 shows nothing more.
Seen(x) ==
  {x} \cup (CASE x.kind = "b64" -> Seen(x.bytes)
              [] x.kind = "utf8of" -> Seen(x.text)
              [] x.kind = "raw" -> {TextDecode(x)}
              [] OTHER -> {})

ShowsText(x, text) == text \in Seen(x) \/ TextEncode(text) \in Seen(x)

ShowsPrivateKey(x, k) ==
  generateKeyPair(k).privateKey \in Seen(x) \/ [kind |-> "pkcs8", kp |-> k] \in Seen(x)

\* The texts of a value: itself, or the fields of a bundle or an envelope.
Leaves(v) == IF "kind" \in DOMAIN v THEN {v} ELSE {v[f] : f \in DOMAIN v}

RegisterTexts(body) == UNION {Leaves(body[f]) : f \in DOMAIN body \ {"username"}}

LoginTexts(body) == UNION {Leaves(body[f]) : f \in DOMAIN body \ {"username"}}

MessageTexts(body) == UNION {Leaves(body[f]) : f \in DOMAIN body \ {"recipientUsername"}}

RestoreTexts(body) ==
  LET data == body.backupData
  IN {data.owner.publicKey}
     \cup {data.contacts[i].publicKey : i \in 1..Len(data.contacts)}
     \cup UNION {{data.messages[i].sender.publicKey, data.messages[i].recipient.publicKey}
                   \cup Leaves(data.messages[i].encryptedForRecipient)
                   \cup Leaves(data.messages[i].encryptedForSender) :
                 i \in 1..Len(data.messages)}

\* The message texts typed so far or typed next.
MessageTextsTyped ==
  {sentText[i] : i \in 1..Len(sentText)} \cup ({Trim(input) : input \in Inputs} \ {Str(<<>>)})

\* No text of a request body shows a message text or a private key.
Sealed(texts) ==
  \A x \in texts :
    /\ \A text \in MessageTextsTyped : ~ShowsText(x, text)
    /\ \A k \in KeyPairs : ~ShowsPrivateKey(x, k)

\* C11: the body of every request the browsers can make in a state (register,
\* login, send message, and restore of the backup generated in that state)
\* shows no message text and no private key; messages travel
\* as bundles and private keys as envelopes.
C11_BodiesCarryNoSecret ==
  \A u \in Users :
    /\ Sealed(RegisterTexts(RegisterBody(u)))
    /\ \A p \in Passphrases : Sealed(LoginTexts(LoginBody(u, p)))
    /\ (session[u] # None /\ activeContact[u] # None) =>
         \A text \in {Trim(input) : input \in Inputs} \ {Str(<<>>)} :
           Sealed(MessageTexts(MessageBody(text, activeContact[u], session[u].user,
                                           Len(msgDocs) + 1)))
    /\ session[u] # None =>
         \A w \in BackupPasswords :
           Sealed(RestoreTexts(RestoreBody(generateBackup(userDocs, msgDocs, userDocs[u]), w)))

\* A message has been sent and stored, and its sender can back it up.
C11_Witness ==
  \E u \in Users :
    /\ session[u] # None
    /\ activeContact[u] # None
    /\ Len(generateBackup(userDocs, msgDocs, userDocs[u]).messages) > 0
    /\ sentText # <<>>

(***************************************************************************)
(* The private key in the browser (Spec).                                  *)
(***************************************************************************)
\* The items a browser may hold for a user: the token and the public record.
SessionItems(u) ==
  IF userDocs[u] = None THEN {}
  ELSE {<<"cc_token", generateToken(userDocs[u]._id)>>,
        <<"cc_user", JSONstringify(toPublicJSON(userDocs[u]))>>}

\* C12: in every state, localStorage holds nothing but cc_token and cc_user,
\* the token and the public user record, and no item is a private key.
C12_StorageHoldsNoKey ==
  \A u \in Users :
    /\ localStorage[u] \subseteq SessionItems(u)
    /\ \A item \in localStorage[u] :
         /\ item[1] \in {"cc_token", "cc_user"}
         /\ \A k \in KeyPairs : item[2] # generateKeyPair(k).privateKey

\* AuthProvider's privateKey: null when nobody is logged in.
HeldKey(u) == IF session[u] = None THEN JsonNull ELSE session[u].privateKey

\* A browser holds the decrypted key in memory and its two items in storage.
C12_Witness ==
  \E u \in Users :
    /\ HeldKey(u) = generateKeyPair(KeyOf(u)).privateKey
    /\ localStorage[u] = SessionItems(u)
    /\ localStorage[u] # {}

\* C13: the private key in memory changes to a non-null value only in a step
\* where POST /auth/login answered 200 and decryptPrivateKey returned that
\* value.
C13_KeyOnlyThroughLogin ==
  [][\A u \in Users :
       (HeldKey(u)' # JsonNull /\ HeldKey(u)' # HeldKey(u)) =>
         \E p \in Passphrases :
           LET response == authLogin(userDocs, LoginBody(u, p))
           IN /\ response.status = 200
              /\ decryptPrivateKey(response.data.encryptedPrivateKey, p).ok
              /\ decryptPrivateKey(response.data.encryptedPrivateKey, p).val = HeldKey(u)'
              /\ HeldKey(u) = JsonNull]_vars

\* One browser holds a key it got by logging in, and a registered user is
\* logged out, with no key, no stored token and no socket traffic.
C13_Witness ==
  \E u \in Users, v \in Users :
    /\ HeldKey(u) = generateKeyPair(KeyOf(u)).privateKey
    /\ userDocs[v] # None
    /\ session[v] = None
    /\ HeldKey(v) = JsonNull
    /\ localStorage[v] = {}
    /\ wire[v] = <<>>

(***************************************************************************)
(* Restore (SpecRestore).                                                  *)
(***************************************************************************)
\* The user a backup file was generated for, read with the password w.
FileOwner(w) == decryptBackup(backupFile.content, w).val.owner.username

\* The messages the backup file holds that the Message collection lacks.
MissingFromStore(w) ==
  LET listed == decryptBackup(backupFile.content, w).val.messages
  IN {i \in 1..Len(listed) : \A j \in 1..Len(msgDocs) : msgDocs[j]._id # listed[i]._id}

\* C14: a restore, through BackupModal or sent to POST /backup/restore
\* directly, by a user who is not the owner the backup names leaves the User
\* and Message collections as they were, and ends in an error.
C14_ForeignRestoreWritesNothing ==
  [][\A u \in Users, w \in BackupPasswords :
       (/\ backupFile # None
        /\ DoRestore(u, w) \/ PostRestore(u, w)
        /\ decryptBackup(backupFile.content, w).ok
        /\ FileOwner(w) # u)
       => /\ UNCHANGED <<userDocs, msgDocs>>
          /\ restoreResult'.status \in {0, 403}
          /\ restoreResult'.status = 0 => ~restoreResult'.sent]_vars

\* The server has answered 403 to a restore of a backup that lists a message
\* the Message collection lacks and a contact the restoring user lacks.
C14_Witness ==
  /\ restoreResult # None
  /\ restoreResult.sent
  /\ restoreResult.status = 403
  /\ backupFile # None
  /\ \E w \in BackupPasswords :
       /\ decryptBackup(backupFile.content, w).ok
       /\ FileOwner(w) # restoreResult.by
       /\ MissingFromStore(w) # {}
       /\ Len(decryptBackup(backupFile.content, w).val.contacts) > 0
       /\ userDocs[restoreResult.by].contacts = <<>>

\* m carries the two bundles of the document POST /messages created under
\* its _id.
BundlesAsCreated(m) ==
  \E j \in 1..Len(created) :
    /\ created[j]._id = m._id
    /\ created[j].encryptedForRecipient = m.encryptedForRecipient
    /\ created[j].encryptedForSender = m.encryptedForSender

\* C18: every message the backup file lists and every message of the Message
\* collection, restored ones included, carries both bundles exactly as they
\* were created.
C18_BundlesSurviveRestore ==
  /\ \A i \in 1..Len(msgDocs) : BundlesAsCreated(msgDocs[i])
  /\ backupFile # None =>
       \A w \in BackupPasswords :
         LET backupData == decryptBackup(backupFile.content, w)
         IN backupData.ok =>
              \A i \in 1..Len(backupData.val.messages) :
                BundlesAsCreated(backupData.val.messages[i])

\* A restore has put back a message the Message collection had lost.
C18_Witness ==
  /\ restoreResult # None
  /\ restoreResult.status = 200
  /\ restoreResult.data.restoredMessages > 0
  /\ Len(msgDocs) > 0

(***************************************************************************)
(* Login errors (SpecLogin).                                               *)
(***************************************************************************)
\* The message login returns for u when a passphrase that is not u's is
\* typed against u's account as registered.
WrongPassphraseMessage(u) ==
  LET docs == [v \in Users |-> IF v = u THEN RegisteredUser(u) ELSE None]
      typed == PassphraseOf(Other(u))
  IN login(authLogin(docs, LoginBody(u, typed)), typed).message

\* C15: a login with the right passphrase that fails on a corrupted stored
\* envelope returns the message a login with a wrong passphrase returns.
C15_UniformLoginError ==
  (/\ lPc = "answered"
   /\ lTamper # None
   /\ lTyped = PassphraseOf(lUser)
   /\ ~lOut.success)
  => lOut.message = WrongPassphraseMessage(lUser)

(***************************************************************************)
(* Errors of decryptBackup (SpecBackup).                                   *)
(***************************************************************************)
\* The field of the document that was changed, or "none".
EditedField == IF bEdit = None THEN "none" ELSE bEdit.field

\* C16, as stated: every failure of decryptBackup, on a wrong password or on
\* a document whose salt, iv, ciphertext or header was changed, is the error
\* of a wrong password.
C16_OneErrorForEveryFailure ==
  (bPc = "decoded" /\ ~bOut.ok) => bOut.err = ErrWrongPassword

\* C16, amended: every failure of decryptBackup on a wrong password or on a
\* document whose salt, iv or ciphertext was changed or is missing is the
\* error of a wrong password.
C16_OneErrorForSealedFields ==
  (bPc = "decoded" /\ ~bOut.ok /\ EditedField \in SealedFields \cup {"none"})
  => bOut.err = ErrWrongPassword

\* The right password fails on a changed salt, iv or ciphertext.
C16_Witness ==
  /\ bPc = "decoded"
  /\ EditedField \in SealedFields
  /\ bTry = bPw
  /\ ~bOut.ok
  /\ bOut.err = ErrWrongPassword

(***************************************************************************)
(* decryptAll (SpecList).                                                  *)
(***************************************************************************)
\* The bundle of a raw message that dUser can open.
OwnBundle(msg) ==
  IF msg.sender._id = dUser._id THEN msg.encryptedForSender ELSE msg.encryptedForRecipient

\* C17: decryptAll returns one message for each raw message, in order: the
\* raw message with its plaintext and decryptFailed = false when
\* decryptMessage succeeds on it, with the placeholder and decryptFailed =
\* true when it fails; and each is what decryptAll returns for that raw
\* message alone.
C17_DecryptAllTolerant ==
  dPc = "shown" =>
    /\ Len(dOut) = Len(dRaw)
    /\ \A i \in 1..Len(dRaw) :
         LET plaintext == decryptMessage(OwnBundle(dRaw[i]), dKey)
         IN /\ dOut[i]._id = dRaw[i]._id
            /\ \A f \in DOMAIN dRaw[i] : dOut[i][f] = dRaw[i][f]
            /\ dOut[i].decryptFailed = ~plaintext.ok
            /\ dOut[i].plaintext = IF plaintext.ok THEN plaintext.val ELSE UnableToDecrypt
            /\ <<dOut[i]>> = decryptAll(<<dRaw[i]>>, dUser, dKey)

\* A message that fails is followed by one that decrypts, and one that
\* decrypts by one that fails.
C17_Witness ==
  /\ dPc = "shown"
  /\ \E i \in 1..Len(dOut), j \in 1..Len(dOut), k \in 1..Len(dOut) :
       /\ i < j
       /\ j < k
       /\ dOut[i].decryptFailed
       /\ ~dOut[j].decryptFailed
       /\ dOut[j].plaintext = Str(<<97>>)
       /\ dOut[k].decryptFailed

(***************************************************************************)
(* getKeyFingerprint (SpecPrint).                                          *)
(***************************************************************************)
\* The value of an uppercase hexadecimal digit.
HexValue(c) == IF c <= 57 THEN c - 48 ELSE c - 55

\* The place of the k-th hexadecimal digit in a text of four-digit blocks
\* separated by one space.
DigitAt(k) == k + (k - 1) \div 4

\* C19: getKeyFingerprint returns the same text for the same key, and the
\* text is the digest in uppercase hexadecimal, two digits a byte, in
\* sixteen blocks of four digits separated by single spaces.
C19_FingerprintFormat ==
  (fPc = "shown" /\ fOut.ok) =>
    LET cu == fOut.val.cu
    IN /\ fAgain = fOut
       /\ Len(cu) = 4 * 16 + 15
       /\ \A p \in 1..Len(cu) :
            IF p % 5 = 0 THEN cu[p] = 32
            ELSE cu[p] \in (48..57) \cup (65..70)
       /\ \A i \in 1..DigestBytes :
            /\ HexValue(cu[DigitAt(2 * i - 1)]) = fHash[i] \div 16
            /\ HexValue(cu[DigitAt(2 * i)]) = fHash[i] % 16

\* A fingerprint was shown for a digest with a byte below sixteen and a
\* byte with a letter digit.
C19_Witness ==
  /\ fPc = "shown"
  /\ fOut.ok
  /\ \E i \in 1..DigestBytes : fHash[i] < 16
  /\ \E i \in 1..DigestBytes : fHash[i] % 16 >= 10

(***************************************************************************)
(* The order of the conversation view (Spec).                              *)
(***************************************************************************)
\* C20: in every state the messages a ChatWindow shows are in
\* non-decreasing order of createdAt.
C20_ShownInCreatedAtOrder ==
  \A u \in Users :
    \A i \in 1..Len(messages[u]), j \in 1..Len(messages[u]) :
      i < j => messages[u][i].createdAt <= messages[u][j].createdAt

(***************************************************************************)
(* C21.  Two bundles per stored message.                                   *)
(***************************************************************************)
\* Whether a message has both bundles, each with a ciphertext, a wrapped key
\* and a nonce that are not empty.
HasBothBundles(m) ==
  \A b \in {"encryptedForRecipient", "encryptedForSender"} :
    /\ b \in DOMAIN m
    /\ \A f \in BundleFields : f \in DOMAIN m[b] /\ TextLen(m[b][f]) > 0

\* Whether a backupData lists a message that lacks a bundle or a text of one.
ListsLacking(backupData) ==
  \E i \in 1..Len(backupData.messages) : ~HasBothBundles(backupData.messages[i])

\* What POST /messages leaves of the store for a body that lacks a bundle or
\* a text of one: the store as it was.
LackingBodyStoresNothing ==
  \A u \in Users, how \in Spoils :
    ~HasBothBundles(SpoiledBody(u, how))
      => postMessage(userDocs, msgDocs, userDocs[u], SpoiledBody(u, how)).msgs = msgDocs

\* What POST /backup/restore answers u for a backupData, and the collections
\* after it.
Restored(u, backupData) ==
  restoreBackup(userDocs, msgDocs, userDocs[u], [backupData |-> backupData])

StoresNothing(res) == res.msgs = msgDocs /\ res.docs = userDocs

\* Whether Holds is true of what POST /backup/restore does with every
\* backupData either user may send that lists a lacking message.
EveryLackingRestore(Holds(_)) ==
  LET Check(registered, forged) ==
        \A u \in Users, owner \in Users, contacts \in 0..2 :
          \A picks \in ForgedPicks :
            LET Use(backupData) ==
                  ListsLacking(backupData) => Holds(Restored(u, backupData))
            IN Use(ForgedPayloadOf(registered, forged, u, owner, contacts, picks))
  IN Check(Registered, Forged)

\* C21 as stated: every stored message has both bundles with non-empty
\* ciphertext, encKey and iv, and a request lacking any of them, to POST
\* /messages or to POST /backup/restore, stores nothing.
C21_LackingRequestStoresNothing ==
  /\ \A i \in 1..Len(msgDocs) : HasBothBundles(msgDocs[i])
  /\ LackingBodyStoresNothing
  /\ EveryLackingRestore(StoresNothing)

\* C21, amended: every stored message has both bundles with non-empty
\* ciphertext, encKey and iv, whatever POST /messages and POST
\* /backup/restore were sent, and a POST /messages lacking any of them stores
\* nothing.
C21_TwoBundlesPerMessage ==
  /\ \A i \in 1..Len(msgDocs) : HasBothBundles(msgDocs[i])
  /\ LackingBodyStoresNothing

\* A restore has stored a message, and a POST /messages with a bundle short
\* of a text was then refused.
C21_Witness ==
  /\ restoreResult # None
  /\ restoreResult.status = 400
  /\ restoreResult.data.message = "Invalid encrypted payload"
  /\ \E i \in 1..Len(msgDocs) : msgDocs[i]._id > 100

(***************************************************************************)
(* C27.  Whose messages a restore inserts (SpecServer).                    *)
(***************************************************************************)
\* Whether a step is a POST /backup/restore that was answered "Restore
\* completed".
RestoreCompleted ==
  /\ restoreResult' # None
  /\ "restoredMessages" \in DOMAIN restoreResult'.data

\* The messages a step appended to the Message collection.
Inserted == {msgDocs'[i] : i \in (Len(msgDocs) + 1)..Len(msgDocs')}

\* C27: every message a POST /backup/restore inserts has the restoring user
\* as its sender or its recipient, and a sender different from its
\* recipient.
C27_RestoreInsertsOnlyOwn ==
  [][RestoreCompleted =>
       \A m \in Inserted :
         /\ UserId(restoreResult'.by) \in {m.sender, m.recipient}
         /\ m.sender # m.recipient]_vars

(***************************************************************************)
(* C24.  What the server sends of a user document (SpecRestore).           *)
(***************************************************************************)
\* .select('username publicKey isOnline lastSeen'), which keeps _id.
SelectPublic(doc) == [_id |-> doc._id, username |-> doc.username, publicKey |-> doc.publicKey]

\* The response of POST /auth/register for the document it created.
authRegister(doc) == [token |-> generateToken(doc._id), user |-> toPublicJSON(doc)]

\* GET /auth/me
authMe(reqUser) == [user |-> toPublicJSON(reqUser)]

\* GET /auth/keys
authKeys(docs, reqUser) ==
  LET user == docs[reqUser.username]
  IN [publicKey |-> user.publicKey, encryptedPrivateKey |-> user.encryptedPrivateKey]

\* GET /users/search for a query that the usernames in matching match.
usersSearch(docs, reqUser, matching) ==
  LET found == {v \in matching : docs[v] # None /\ docs[v]._id # reqUser._id}
      listed == CHOOSE order \in [1..Cardinality(found) -> found] :
                  \A i, j \in 1..Cardinality(found) : i # j => order[i] # order[j]
  IN [i \in 1..Cardinality(found) |-> SelectPublic(docs[listed[i]])]

\* GET /users/:username
userProfile(docs, username) ==
  IF docs[username] = None THEN [status |-> 404, data |-> [message |-> "User not found"]]
  ELSE [status |-> 200, data |-> SelectPublic(docs[username])]

\* The response of POST /users/contacts for a contact that was added.
addContact(contact) == [message |-> "Contact added", contact |-> toPublicJSON(contact)]

\* GET /users/contacts/list: populate('contacts.user', ...) replaces the id
\* of a contact that has one.
contactsList(docs, reqUser) ==
  LET me == docs[reqUser.username]
      Populated(c) ==
        IF "user" \in DOMAIN c
          THEN [user |-> SelectPublic(docs[UsernameOfId(c.user)]),
                username |-> c.username, publicKey |-> c.publicKey]
        ELSE [user |-> JsonNull, username |-> c.username, publicKey |-> c.publicKey]
  IN [i \in 1..Len(me.contacts) |-> Populated(me.contacts[i])]

\* GET /messages: one group for each user the requester has exchanged
\* messages with, the latest message first.
conversations(docs, msgs, reqUser) ==
  LET OtherOf(m) == IF m.sender = reqUser._id THEN m.recipient ELSE m.sender
      Mine(m) == m.sender = reqUser._id \/ m.recipient = reqUser._id
      mine == SelectSeq(msgs, Mine)
      With(id) == {i \in 1..Len(mine) : OtherOf(mine[i]) = id}
      ids == {OtherOf(mine[i]) : i \in 1..Len(mine)}
      Last(id) == mine[CHOOSE i \in With(id) :
                         \A j \in With(id) : mine[j].createdAt <= mine[i].createdAt]
      Unread(id) ==
        Cardinality({i \in With(id) : mine[i].recipient = reqUser._id /\ ~mine[i].read})
      order == CHOOSE seq \in [1..Cardinality(ids) -> ids] :
                 /\ \A i, j \in 1..Cardinality(ids) : i # j => seq[i] # seq[j]
                 /\ \A i, j \in 1..Cardinality(ids) :
                      i < j => Last(seq[i]).createdAt >= Last(seq[j]).createdAt
  IN [i \in 1..Cardinality(ids) |->
        [_id |-> order[i],
         contact |-> SelectPublic(docs[UsernameOfId(order[i])]),
         lastMessage |-> Last(order[i]),
         unreadCount |-> Unread(order[i])]]

\* GET /messages/:username
getMessages(docs, msgs, reqUser, username) ==
  LET found == Between(msgs, reqUser._id, docs[username]._id)
  IN [i \in 1..Len(found) |-> PopulatedMessage(docs, found[i])]

\* Whether a record that is sent has neither the password hash nor the
\* envelope among its fields.
Secretless(view) ==
  /\ "password" \notin DOMAIN view
  /\ "encryptedPrivateKey" \notin DOMAIN view

SecretlessMessage(m) ==
  /\ Secretless(m)
  /\ Secretless(m.sender)
  /\ Secretless(m.recipient)

\* What the routes without an envelope answer the user a token names.
PublicRoutesSecretless(u) ==
  LET me == userDocs[u]
      Backup(data) ==
        /\ Secretless(data) /\ Secretless(data.owner)
        /\ \A i \in 1..Len(data.contacts) : Secretless(data.contacts[i])
        /\ \A i \in 1..Len(data.messages) : SecretlessMessage(data.messages[i])
      Search(found) == \A i \in 1..Len(found) : Secretless(found[i])
      Contacts(list) ==
        \A i \in 1..Len(list) :
          Secretless(list[i]) /\ (list[i].user # JsonNull => Secretless(list[i].user))
      Groups(list) ==
        \A i \in 1..Len(list) :
          Secretless(list[i]) /\ Secretless(list[i].contact) /\ Secretless(list[i].lastMessage)
      Messages(list) == \A i \in 1..Len(list) : SecretlessMessage(list[i])
      Registered201(data) == Secretless(data) /\ Secretless(data.user)
      Me(data) == Secretless(data) /\ Secretless(data.user)
      Added(data) == Secretless(data) /\ Secretless(data.contact)
  IN /\ Registered201(authRegister(me))
     /\ Me(authMe(me))
     /\ \A matching \in SUBSET Users : Search(usersSearch(userDocs, me, matching))
     /\ \A v \in Users : Secretless(userProfile(userDocs, v).data)
     /\ \A v \in Users \ {u} : Added(addContact(userDocs[v]))
     /\ Contacts(contactsList(userDocs, me))
     /\ Groups(conversations(userDocs, msgDocs, me))
     /\ \A v \in Users : Messages(getMessages(userDocs, msgDocs, me, v))
     /\ \A i \in 1..Len(msgDocs) : SecretlessMessage(SocketPayload(userDocs, msgDocs[i]))
     /\ Backup(generateBackup(userDocs, msgDocs, me))

\* What POST /auth/login answers for the credentials of v: on success the
\* envelope of v and no hash, otherwise a message alone.
LoginSendsOwnEnvelope(v, p) ==
  LET Answer(response) ==
        IF response.status = 200
          THEN /\ matchPassword(userDocs[v], p)
               /\ response.data.encryptedPrivateKey = userDocs[v].encryptedPrivateKey
               /\ "password" \notin DOMAIN response.data
               /\ Secretless(response.data.user)
               /\ response.data.user.username = v
        ELSE DOMAIN response.data = {"message"}
  IN Answer(authLogin(userDocs, LoginBody(v, p)))

\* What GET /auth/keys answers the user a token names: that user's envelope.
KeysSendsOwnEnvelope(u) ==
  LET Answer(data) ==
        /\ "password" \notin DOMAIN data
        /\ data.encryptedPrivateKey = userDocs[u].encryptedPrivateKey
        /\ data.publicKey = userDocs[u].publicKey
  IN Answer(authKeys(userDocs, userDocs[u]))

\* C24: no response carries a password hash; an envelope is carried only by
\* the 200 of POST /auth/login for the credentials of the user it belongs to
\* and by GET /auth/keys for the user the token names; register, /auth/me,
\* search, profile, contacts, conversations, messages, socket payloads and
\* backups carry none.
C24_HashAndEnvelopeStayHome ==
  \A u \in Users :
    /\ PublicRoutesSecretless(u)
    /\ \A p \in Passphrases \cup BackupPasswords : LoginSendsOwnEnvelope(u, p)
    /\ KeysSendsOwnEnvelope(u)

\* Both users hold each other as contacts with the envelopes stored, the
\* store holds a message, and a restore was answered.
C24_Witness ==
  /\ \A u \in Users : Len(userDocs[u].contacts) > 0
  /\ \A u \in Users : userDocs[u].encryptedPrivateKey.ct # userDocs[Other(u)].encryptedPrivateKey.ct
  /\ Len(msgDocs) > 0
  /\ restoreResult # None

(***************************************************************************)
(* C25.  What the server is told of the passphrase (Spec).                 *)
(***************************************************************************)
\* Whether a text the server received unwraps the envelope it stores for u.
Unwraps(u, text) == decryptPrivateKey(userDocs[u].encryptedPrivateKey, text).ok

\* C25: the body of POST /auth/register the server received for a
\* registered user, and every body of POST /auth/login it answers with 200,
\* carries no text that unwraps the envelope stored for that user.
C25_ServerNeverSeesPassphrase ==
  \A u \in Users :
    userDocs[u] # None =>
      /\ ~Unwraps(u, RegisterBody(u).password)
      /\ \A p \in Passphrases :
           authLogin(userDocs, LoginBody(u, p)).status = 200
             => ~Unwraps(u, LoginBody(u, p).password)

(***************************************************************************)
(* C26.  The key of an active session (Spec).                              *)
(***************************************************************************)
\* C26: whenever AuthProvider's user is set, so that the chat page is shown,
\* its privateKey is not null.
C26_ActiveSessionHoldsKey ==
  \A u \in Users : session[u] # None => session[u].privateKey # JsonNull

(***************************************************************************)
(* C29.  A login that fails (SpecLogin).                                   *)
(***************************************************************************)
\* What POST /auth/login answered the login of the round.
LoginResponse ==
  authLogin([u \in Users |-> IF u = lUser THEN lDoc ELSE None], LoginBody(lUser, lTyped))

\* Whether the login of the round failed: the server rejected it, or
\* decryptPrivateKey threw on the envelope it sent.
LoginFailed ==
  /\ lPc = "answered"
  /\ \/ LoginResponse.status # 200
     \/ ~decryptPrivateKey(LoginResponse.data.encryptedPrivateKey, lTyped).ok

\* C29: after a login that the server rejected or whose decryptPrivateKey
\* failed, user and privateKey are null (so no socket is opened),
\* localStorage holds no token and no user, and login has returned
\* {success: false} with a message.
C29_FailedLoginLeavesSession ==
  LoginFailed =>
    /\ session = [u \in Users |-> None]
    /\ localStorage = [u \in Users |-> {}]
    /\ wire = [u \in Users |-> <<>>]
    /\ lOut.success = FALSE
    /\ DOMAIN lOut = {"success", "message"}

\* The server accepted the passphrase and sent an envelope that
\* decryptPrivateKey rejected.
C29_Witness ==
  /\ LoginFailed
  /\ LoginResponse.status = 200
  /\ lTamper # None
  /\ session[lUser] = None

(***************************************************************************)
(* C22.  A restore sent twice (SpecTwice).                                 *)
(***************************************************************************)
\* A step keeps every stored message as it is and adds none with an _id
\* that was stored.
KeepsStored ==
  /\ Len(msgDocs') >= Len(msgDocs)
  /\ SubSeq(msgDocs', 1, Len(msgDocs)) = msgDocs
  /\ \A i \in (Len(msgDocs) + 1)..Len(msgDocs'), j \in 1..Len(msgDocs') :
       i # j => msgDocs'[i]._id # msgDocs'[j]._id

\* A step keeps every contact of every user as it is and adds none with a
\* username that was in the list.
KeepsContacts ==
  \A u \in Users :
    LET Kept(old, new) ==
          /\ Len(new) >= Len(old)
          /\ SubSeq(new, 1, Len(old)) = old
          /\ \A i \in (Len(old) + 1)..Len(new), j \in 1..Len(new) :
               i # j => new[i].username # new[j].username
    IN Kept(userDocs[u].contacts, userDocs'[u].contacts)

\* A step is the second sending of a backupData, and it changes nothing: it
\* is answered as the first one was, with both counts 0 if that was a 200,
\* and the collections stay as they were.
SecondChangesNothing ==
  /\ restoreResult'.status = resent.first.status
  /\ restoreResult'.status = 200 =>
       /\ restoreResult'.data.restoredMessages = 0
       /\ restoreResult'.data.restoredContacts = 0
  /\ msgDocs' = msgDocs
  /\ userDocs' = userDocs

IsSecondSending == resent # None /\ resent.times = 1 /\ resent'.times = 2

\* Whether every message a backupData lists carries an _id.
AllCarryId(picks) == \A i \in 1..Len(picks) : picks[i] # "noId"

C23_OneRecordPerUserAndType ==
  \A i, j \in 1..Len(backupDocs) :
    (backupDocs[i].user = backupDocs[j].user /\ backupDocs[i].type = backupDocs[j].type)
      => i = j

(***************************************************************************)
(* C28.  Whose messages the window shows (SpecWindow).                     *)
(***************************************************************************)
\* C28: whenever loading is false, every message in the list was exchanged
\* with the contact that is open.
C28_ListBelongsToOpenContact ==
  (wContact # None /\ ~wLoading) =>
    \A i \in 1..Len(wMessages) :
      wContact.username \in {wMessages[i].sender.username, wMessages[i].recipient.username}

(***************************************************************************)
(* C30.  Presence (SpecPresence).                                          *)
(***************************************************************************)
\* The ids of the connected sockets of a user.
LiveSockets(u) == {id \in 1..Len(sockets) : sockets[id].connected /\ sockets[id].user = u}

\* C30: once every handler has completed, a user has an entry in
\* onlineUsers and isOnline set exactly when a socket of theirs is
\* connected, and the entry is the id of such a socket.
C30_PresenceTracksSockets ==
  dbWrites = <<>> =>
    \A u \in Users :
      /\ u \in DOMAIN onlineUsers <=> LiveSockets(u) # {}
      /\ isOnline[u] <=> LiveSockets(u) # {}
      /\ u \in DOMAIN onlineUsers => onlineUsers[u] \in LiveSockets(u)

====
